---- MODULE Spec2Model ----
(***************************************************************************)
(* Verification model of the jobfuscator class-file disassembler:          *)
(* the byte reader, the constant-pool builder, the access-flag parsers,    *)
(* the class-file decoder, the bytecode decoder and the attribute          *)
(* dispatchers.  Rust strings are modelled as sequences of their UTF-8     *)
(* bytes; a Result is a record [res, pos, val, diag] where res is "Ok",    *)
(* "Err" (an Err value returned to the caller) or "Panic" (unwinding).     *)
(***************************************************************************)
EXTENDS Integers, Sequences, FiniteSets, TLC

VARIABLES
    buf,                \* BinaryReader.buf: the bytes under the cursor
    pos,                \* BinaryReader.pos
    endian,             \* BinaryReader.endian: "Big" or "Little"
    debug_assertions,   \* build profile: TRUE when debug_assert! is compiled in
    pc,                 \* position of the running operation
    last,               \* the last reader call: its name, argument and result
    cp_count,           \* parse_constant_pool's argument cp_count
    i,                  \* parse_constant_pool's logical counter i
    entries,            \* ConstantPool.entries
    diag,               \* the panic diagnostic, NoDiag while none
    ctx,                \* access-flag context / attribute context under test
    flags,              \* the 16-bit flag word handed to the parse function
    result,             \* the value produced by the operation under test
    cf                  \* the ClassFile under construction

vars == <<buf, pos, endian, debug_assertions, pc, last, cp_count, i, entries,
          diag, ctx, flags, result, cf>>

----------------------------------------------------------------------------
(* Bounds of the model.                                                    *)

MaxBufLen == 4        \* longest buffer handed to the bare reader
MaxReadCount == 2     \* largest count given to read_u8_vec / read_u16_vec
MaxEntries == 2       \* most constant-pool entries encoded in an input
MaxCut == 2           \* most bytes truncated from the end of an input
MaxMembers == 1       \* largest interfaces/fields/methods/attributes count
MaxOperandBytes == 19 \* most bytes that follow the opcode in a code input
MaxAttrPayload == 12  \* longest all-zero attribute payload
MaxTypeDepth == 2     \* nesting of arrays and generic arguments in a valid descriptor
MaxDescLen == 4       \* length of the arbitrary strings handed to the descriptor parser
MaxTextLen == 3       \* longest payload handed to convert_utf8
MaxTailBytes == 4     \* bytes after the opcode in the code of the termination check
MaxWords == 6         \* 32-bit words after the padding of a switch
MaxBranchPrefix == 3  \* aconst_null instructions before a branch
MaxFramePayload == 4  \* free bytes after a frame_type or a verification type tag
MaxPoolItems == 3     \* constants of a pool handed to the printer
MaxRef == 9           \* largest index stored in a pool entry or asked of a resolver

----------------------------------------------------------------------------
(* Integer helpers.                                                        *)

RECURSIVE Pow(_, _)
Pow(b, e) == IF e = 0 THEN 1 ELSE b * Pow(b, e - 1)

U16_MAX == 65535

\* u16 & u16, bit by bit
RECURSIVE BitAnd(_, _, _)
BitAnd(a, b, n) ==
    IF n = 0 THEN 0
    ELSE (IF a % 2 = 1 /\ b % 2 = 1 THEN 1 ELSE 0)
         + 2 * BitAnd(a \div 2, b \div 2, n - 1)

And16(a, b) == BitAnd(a, b, 16)
\* !x on a u16
Not16(x) == U16_MAX - x

RECURSIVE Flatten(_)
Flatten(ss) == IF ss = <<>> THEN <<>> ELSE Head(ss) \o Flatten(Tail(ss))

RECURSIVE SeqsUpTo(_, _)
\* all sequences over S of length at most n
SeqsUpTo(S, n) ==
    IF n = 0 THEN {<<>>}
    ELSE LET shorter == SeqsUpTo(S, n - 1)
         IN  shorter \cup {Append(s, x) : s \in {t \in shorter : Len(t) = n - 1}, x \in S}

NoDiag == [kind |-> "none"]
NoLast == [op |-> "none"]
NoCf == [made |-> FALSE]

RECURSIVE Contains(_, _)
\* the byte string hay has the byte string needle as a substring
Contains(hay, needle) ==
    IF Len(needle) > Len(hay) THEN FALSE
    ELSE IF SubSeq(hay, 1, Len(needle)) = needle THEN TRUE
    ELSE Contains(Tail(hay), needle)

----------------------------------------------------------------------------
(* binary_reader: BinaryReader                                             *)

Ok(p, v) == [res |-> "Ok", pos |-> p, val |-> v, diag |-> NoDiag]
Err(p) == [res |-> "Err", pos |-> p, val |-> <<>>,
           diag |-> [kind |-> "UnexpectedEof"]]
Panic(p, d) == [res |-> "Panic", pos |-> p, val |-> <<>>, diag |-> d]

\* Result::unwrap(): an Err becomes a panic carrying the error
Unwrap(r) == IF r.res = "Err" THEN Panic(r.pos, r.diag) ELSE r

\* the `?`-like sequencing of two steps: a failed step ends the function,
\* a successful one hands its result to the rest
Then(r, rest(_)) == IF r.res # "Ok" THEN r ELSE rest(r)

\* the result r reported at cursor p of the enclosing reader
At(r, p) == [r EXCEPT !.pos = p]

read_bytes(b, p, count) ==
    IF p + count > Len(b)
    THEN Err(p)
    ELSE Ok(p + count, SubSeq(b, p + 1, p + count))

\* the `?` operator forwards the Err of read_bytes
read_u8(b, p) ==
    LET r == read_bytes(b, p, 1)
    IN  IF r.res = "Ok" THEN Ok(r.pos, r.val[1]) ELSE r

read_u8_vec(b, p, count) == read_bytes(b, p, count)

\* u16::from_be_bytes / u16::from_le_bytes
u16_from_be_bytes(bytes) == bytes[1] * 256 + bytes[2]
u16_from_le_bytes(bytes) == bytes[2] * 256 + bytes[1]

\* u32::from_be_bytes / u32::from_le_bytes; a u32 is kept as its two 16-bit
\* halves <<high, low>> so that no value leaves the 32-bit integer range of the model
u32_from_be_bytes(bytes) ==
    <<bytes[1] * 256 + bytes[2], bytes[3] * 256 + bytes[4]>>
u32_from_le_bytes(bytes) ==
    <<bytes[4] * 256 + bytes[3], bytes[2] * 256 + bytes[1]>>

\* read_bytes(2).unwrap(): a short read panics inside read_u16
read_u16(b, p, e) ==
    LET r == Unwrap(read_bytes(b, p, 2))
    IN  IF r.res = "Ok"
        THEN Ok(r.pos, IF e = "Little" THEN u16_from_le_bytes(r.val)
                                         ELSE u16_from_be_bytes(r.val))
        ELSE r

read_u32(b, p, e) ==
    LET r == Unwrap(read_bytes(b, p, 4))
    IN  IF r.res = "Ok"
        THEN Ok(r.pos, IF e = "Little" THEN u32_from_le_bytes(r.val)
                                         ELSE u32_from_be_bytes(r.val))
        ELSE r

RECURSIVE read_u16_loop(_, _, _, _, _)
\* for x in res.iter_mut().take(count) { *x = self.read_u16().unwrap(); }
read_u16_loop(b, p, e, count, acc) ==
    IF count = 0 THEN Ok(p, acc)
    ELSE LET r == Unwrap(read_u16(b, p, e))
         IN  IF r.res = "Ok"
             THEN read_u16_loop(b, r.pos, e, count - 1, Append(acc, r.val))
             ELSE r

read_u16_vec(b, p, e, count, dbg) ==
    IF dbg /\ ~(count > 0)
    THEN Panic(p, [kind |-> "AssertionFailed"])
    ELSE read_u16_loop(b, p, e, count, <<>>)

----------------------------------------------------------------------------
(* The bare reader: any sequence of reads on a small buffer.               *)

ReaderBytes == {0, 1, 202}

ParkPool == cp_count = 0 /\ i = 0 /\ entries = <<>>
ParkFlags == ctx = "none" /\ flags = 0
ParkFile == cf = NoCf

InitReader ==
    /\ buf \in SeqsUpTo(ReaderBytes, MaxBufLen)
    /\ pos = 0
    /\ endian \in {"Big", "Little"}
    /\ debug_assertions \in BOOLEAN
    /\ pc = "reader"
    /\ last = NoLast
    /\ diag = NoDiag
    /\ result = <<>>
    /\ ParkPool /\ ParkFlags /\ ParkFile

\* one call on the reader; a panic unwinds and ends the run
ReaderCall(op, count, need, r) ==
    /\ last' = [op |-> op, count |-> count, need |-> need, pos0 |-> pos,
                res |-> r.res, val |-> r.val, err |-> r.diag.kind]
    /\ pos' = r.pos
    /\ pc' = IF r.res = "Panic" THEN "panicked" ELSE "reader"
    /\ UNCHANGED <<buf, endian, debug_assertions, cp_count, i, entries,
                   diag, ctx, flags, result, cf>>

ReadU8 ==
    /\ pc = "reader"
    /\ ReaderCall("read_u8", 1, 1, read_u8(buf, pos))

ReadU8Vec ==
    /\ pc = "reader"
    /\ \E count \in 0..MaxReadCount :
        ReaderCall("read_u8_vec", count, count, read_u8_vec(buf, pos, count))

ReadU16 ==
    /\ pc = "reader"
    /\ ReaderCall("read_u16", 1, 2, read_u16(buf, pos, endian))

ReadU16Vec ==
    /\ pc = "reader"
    /\ \E count \in 0..MaxReadCount :
        ReaderCall("read_u16_vec", count, 2 * count,
                   read_u16_vec(buf, pos, endian, count, debug_assertions))

ReadU32 ==
    /\ pc = "reader"
    /\ ReaderCall("read_u32", 1, 4, read_u32(buf, pos, endian))

NextReader == ReadU8 \/ ReadU8Vec \/ ReadU16 \/ ReadU16Vec \/ ReadU32

SpecReader == InitReader /\ [][NextReader]_vars

\* C4: every read that is asked for more bytes than remain between the
\* cursor and the end of the buffer returns an UnexpectedEof error result.
C4_ShortReadReturnsEof ==
    (last.op # "none" /\ last.pos0 + last.need > Len(buf))
        => (last.res = "Err" /\ last.err = "UnexpectedEof")

\* C5: a read that fails leaves the cursor where it was before the call; a
\* read of k bytes that succeeds advances it by exactly k, within the buffer.
C5_CursorFrame ==
    last.op # "none" =>
        /\ last.res # "Ok" => pos = last.pos0
        /\ last.res = "Ok" => (pos = last.pos0 + last.need /\ pos <= Len(buf))

----------------------------------------------------------------------------
(* classfile::access_flags                                                 *)

ALL_CLASS_ACCESS_FLAGS ==
    << <<"Public", 1>>, <<"Final", 16>>, <<"Super", 32>>,
       <<"Interface", 512>>, <<"Abstract", 1024>>, <<"Synthetic", 4096>>,
       <<"Annotation", 8192>>, <<"Enum", 16384>>, <<"Module", 32768>> >>

CLASS_ACCESS_FLAGS_MASK == 63025

ALL_INNER_CLASS_ACCESS_FLAGS ==
    << <<"Public", 1>>, <<"Private", 2>>, <<"Protected", 4>>,
       <<"Static", 8>>, <<"Final", 16>>, <<"Interface", 512>>,
       <<"Abstract", 1024>>, <<"Synthetic", 4096>>, <<"Annotation", 8192>>,
       <<"Enum", 16384>> >>

INNER_CLASS_ACCESS_FLAGS_MASK == 30239

ALL_FIELD_ACCESS_FLAGS ==
    << <<"Public", 1>>, <<"Private", 2>>, <<"Protected", 4>>,
       <<"Static", 8>>, <<"Final", 16>>, <<"Volatile", 64>>,
       <<"Transient", 128>>, <<"Synthetic", 4096>>, <<"Enum", 16384>> >>

FIELD_ACCESS_FLAGS_MASK == 20703

ALL_METHOD_ACCESS_FLAGS ==
    << <<"Public", 1>>, <<"Private", 2>>, <<"Protected", 4>>,
       <<"Static", 8>>, <<"Final", 16>>, <<"Synchronized", 32>>,
       <<"Bridge", 64>>, <<"Varargs", 128>>, <<"Native", 256>>,
       <<"Abstract", 1024>>, <<"Strict", 2048>>, <<"Synthetic", 4096>> >>

METHOD_ACCESS_FLAGS_MASK == 7679

ALL_METHOD_PARAMETER_ACCESS_FLAGS ==
    << <<"Final", 16>>, <<"Synthetic", 4096>>, <<"Mandated", 32768>> >>

METHOD_PARAMETER_ACCESS_FLAGS_MASK == 36880

RECURSIVE collect_flags(_, _, _)
\* for (f, mask) in ALL.iter() { if (flags & mask) != 0 { result.push(*f) } }
collect_flags(all, f, k) ==
    IF k > Len(all) THEN <<>>
    ELSE (IF And16(f, all[k][2]) # 0 THEN <<all[k]>> ELSE <<>>)
         \o collect_flags(all, f, k + 1)

\* a parse function that forgets the mask check
parse_flags_unmasked(all, mask, f) == Ok(0, collect_flags(all, f, 1))

parse_flags_with(all, mask, f) ==
    IF And16(f, Not16(mask)) # 0
    THEN Panic(0, [kind |-> "InvalidFlagCombination", value |-> f])
    ELSE Ok(0, collect_flags(all, f, 1))

parse_class_access_flags(f) ==
    parse_flags_with(ALL_CLASS_ACCESS_FLAGS, CLASS_ACCESS_FLAGS_MASK, f)

parse_inner_class_access_flags(f) ==
    parse_flags_with(ALL_INNER_CLASS_ACCESS_FLAGS,
                     INNER_CLASS_ACCESS_FLAGS_MASK, f)

parse_field_access_flags(f) ==
    parse_flags_with(ALL_FIELD_ACCESS_FLAGS, FIELD_ACCESS_FLAGS_MASK, f)

parse_method_access_flags(f) ==
    parse_flags_with(ALL_METHOD_ACCESS_FLAGS, METHOD_ACCESS_FLAGS_MASK, f)

parse_method_parameter_access_flags(f) ==
    parse_flags_with(ALL_METHOD_PARAMETER_ACCESS_FLAGS,
                     METHOD_PARAMETER_ACCESS_FLAGS_MASK, f)

FlagContexts == {"class", "inner_class", "field", "method", "method_parameter"}

InitFlags ==
    /\ ctx \in FlagContexts
    /\ flags \in 0..U16_MAX
    /\ pc = "flags"
    /\ result = <<>>
    /\ diag = NoDiag
    /\ buf = <<>> /\ pos = 0 /\ endian = "Big" /\ debug_assertions = FALSE
    /\ last = NoLast
    /\ ParkPool /\ ParkFile

FlagsDone(r) ==
    /\ pc' = IF r.res = "Ok" THEN "parsed" ELSE "panicked"
    /\ result' = r.val
    /\ diag' = r.diag
    /\ UNCHANGED <<buf, pos, endian, debug_assertions, last, cp_count, i,
                   entries, ctx, flags, cf>>

ParseClassAccessFlags ==
    /\ pc = "flags" /\ ctx = "class"
    /\ FlagsDone(parse_class_access_flags(flags))

ParseInnerClassAccessFlags ==
    /\ pc = "flags" /\ ctx = "inner_class"
    /\ FlagsDone(parse_inner_class_access_flags(flags))

ParseFieldAccessFlags ==
    /\ pc = "flags" /\ ctx = "field"
    /\ FlagsDone(parse_field_access_flags(flags))

ParseMethodAccessFlags ==
    /\ pc = "flags" /\ ctx = "method"
    /\ FlagsDone(parse_method_access_flags(flags))

ParseMethodParameterAccessFlags ==
    /\ pc = "flags" /\ ctx = "method_parameter"
    /\ FlagsDone(parse_method_parameter_access_flags(flags))

NextFlags ==
    \/ ParseClassAccessFlags
    \/ ParseInnerClassAccessFlags
    \/ ParseFieldAccessFlags
    \/ ParseMethodAccessFlags
    \/ ParseMethodParameterAccessFlags

SpecFlags == InitFlags /\ [][NextFlags]_vars

\* the masks as the specification gives them, bit by bit
SpecMaskBits(c) ==
    CASE c = "class"            -> {0, 4, 5, 9, 10, 12, 13, 14, 15}
      [] c = "inner_class"      -> {0, 1, 2, 3, 4, 9, 10, 12, 13, 14}
      [] c = "field"            -> {0, 1, 2, 3, 4, 6, 7, 12, 14}
      [] c = "method"           -> {0, 1, 2, 3, 4, 5, 6, 7, 8, 10, 11, 12}
      [] c = "method_parameter" -> {4, 12, 15}

BitsOf(f) == {k \in 0..15 : (f \div Pow(2, k)) % 2 = 1}

\* C8: in each of the five contexts the parse function fails exactly when the
\* flag word has a bit outside the context's mask, and otherwise returns the
\* variants of exactly the set bits, each once, in ascending bit order.
C8_FlagsParsedByMask ==
    pc \in {"parsed", "panicked"} /\ ctx \in FlagContexts =>
        /\ pc = "panicked" <=> ~(BitsOf(flags) \subseteq SpecMaskBits(ctx))
        /\ pc = "parsed" =>
            /\ {result[k][2] : k \in 1..Len(result)}
                   = {Pow(2, b) : b \in BitsOf(flags)}
            /\ \A k \in 1..Len(result) - 1 : result[k][2] < result[k + 1][2]

C8_Witness ==
    /\ pc = "parsed" /\ ctx = "method" /\ flags = 4105
    /\ result = << <<"Public", 1>>, <<"Static", 8>>, <<"Synthetic", 4096>> >>

----------------------------------------------------------------------------
(* classfile::reference_kind and classfile::constant_pool                  *)

ReferenceKind_from(value) ==
    CASE value = 1 -> "GetField"
      [] value = 2 -> "GetStatic"
      [] value = 3 -> "PutField"
      [] value = 4 -> "PutStatic"
      [] value = 5 -> "InvokeVirtual"
      [] value = 6 -> "InvokeStatic"
      [] value = 7 -> "InvokeSpecial"
      [] value = 8 -> "NewInvokeSpecial"
      [] value = 9 -> "InvokeInterface"
      [] OTHER -> "panic"

ConstantPoolTag_from(value) ==
    CASE value = 1 -> "Utf8"
      [] value = 3 -> "Integer"
      [] value = 4 -> "Float"
      [] value = 5 -> "Long"
      [] value = 6 -> "Double"
      [] value = 8 -> "String"
      [] value = 7 -> "Class"
      [] value = 9 -> "Fieldref"
      [] value = 10 -> "Methodref"
      [] value = 11 -> "InterfaceMethodref"
      [] value = 12 -> "NameAndType"
      [] value = 15 -> "MethodHandle"
      [] value = 16 -> "MethodType"
      [] value = 17 -> "Dynamic"
      [] value = 18 -> "InvokeDynamic"
      [] value = 19 -> "Module"
      [] value = 20 -> "Package"
      [] OTHER -> "panic"

\* one u16 field: Variant { f: reader.read_u16().unwrap() }
info_u16(b, p, e, kind) ==
    LET r == Unwrap(read_u16(b, p, e))
    IN  IF r.res = "Ok" THEN Ok(r.pos, [kind |-> kind, a |-> r.val]) ELSE r

\* two u16 fields read in declaration order
info_u16_u16(b, p, e, kind) ==
    LET r1 == Unwrap(read_u16(b, p, e))
        r2 == Unwrap(read_u16(b, r1.pos, e))
    IN  IF r1.res # "Ok" THEN r1
        ELSE IF r2.res # "Ok" THEN r2
        ELSE Ok(r2.pos, [kind |-> kind, a |-> r1.val, b |-> r2.val])

parse_constant_pool_info(b, p, e, tag) ==
    CASE tag = "Utf8" ->
            LET len == Unwrap(read_u16(b, p, e))
                bytes == Unwrap(read_u8_vec(b, len.pos, len.val))
            IN  IF len.res # "Ok" THEN len
                ELSE IF bytes.res # "Ok" THEN bytes
                ELSE Ok(bytes.pos, [kind |-> "Utf8", bytes |-> bytes.val])
      [] tag = "Long" ->
            LET hi == Unwrap(read_u32(b, p, e))
                lo == Unwrap(read_u32(b, hi.pos, e))
            IN  IF hi.res # "Ok" THEN hi
                ELSE IF lo.res # "Ok" THEN lo
                ELSE Ok(lo.pos, [kind |-> "Long", a |-> hi.val, b |-> lo.val])
      [] tag = "String" -> info_u16(b, p, e, "String")
      [] tag = "Class" -> info_u16(b, p, e, "Class")
      [] tag = "Fieldref" -> info_u16_u16(b, p, e, "FieldRef")
      [] tag = "Methodref" -> info_u16_u16(b, p, e, "MethodRef")
      [] tag = "InterfaceMethodref" ->
            info_u16_u16(b, p, e, "InterfaceMethodRef")
      [] tag = "NameAndType" -> info_u16_u16(b, p, e, "NameAndType")
      [] tag = "MethodHandle" ->
            LET k == Unwrap(read_u8(b, p))
                rk == ReferenceKind_from(k.val)
                ix == Unwrap(read_u16(b, k.pos, e))
            IN  IF k.res # "Ok" THEN k
                ELSE IF rk = "panic"
                THEN Panic(k.pos, [kind |-> "UnknownReferenceKind",
                                   value |-> k.val])
                ELSE IF ix.res # "Ok" THEN ix
                ELSE Ok(ix.pos, [kind |-> "MethodHandle", a |-> rk,
                                 b |-> ix.val])
      [] tag = "MethodType" -> info_u16(b, p, e, "MethodType")
      [] tag = "InvokeDynamic" -> info_u16_u16(b, p, e, "InvokeDynamic")
      [] OTHER -> Panic(p, [kind |-> "UnknownConstantPoolTag", tag |-> tag])

Null == [kind |-> "Null"]

\* entries.push(info) without the sentinel
push_entry_only(es, tag, info) == Append(es, info)

\* entries.push(info); after a Long or Double also entries.push(Null {})
push_entry(es, tag, info) ==
    IF tag = "Long" \/ tag = "Double"
    THEN Append(Append(es, info), Null)
    ELSE Append(es, info)

\* i += 1 twice after a Long or Double, once otherwise
advance(n, tag) == IF tag = "Long" \/ tag = "Double" THEN n + 2 ELSE n + 1

\* one iteration of `while i < cp_count`
pool_iteration(b, p, e, es) ==
    LET t == Unwrap(read_u8(b, p))
        tag == ConstantPoolTag_from(t.val)
        info == parse_constant_pool_info(b, t.pos, e, tag)
    IN  IF t.res # "Ok" THEN [r |-> t, tag |-> "none", byte |-> -1, es |-> es]
        ELSE IF tag = "panic"
        THEN [r |-> Panic(t.pos, [kind |-> "UnknownConstantPoolTagValue",
                                  value |-> t.val]),
              tag |-> tag, byte |-> t.val, es |-> es]
        ELSE IF info.res # "Ok"
        THEN [r |-> info, tag |-> tag, byte |-> t.val, es |-> es]
        ELSE [r |-> info, tag |-> tag, byte |-> t.val,
              es |-> push_entry(es, tag, info.val)]

(* Inputs: encoded pool entries.  A chunk is a tag byte followed by a      *)
(* payload of the size the class-file format gives that tag.               *)
TagBytes == 0..21 \cup {255}

PayloadsOf(t) ==
    CASE t = 1 -> {<<0, 0>>, <<0, 1, 65>>}
      [] t \in {3, 4} -> {<<0, 0, 0, 1>>}
      [] t \in {5, 6} -> {<<0, 0, 0, 0, 0, 0, 0, 1>>}
      [] t \in {7, 8, 16, 19, 20} -> {<<0, 1>>}
      [] t \in {9, 10, 11, 12, 17, 18} -> {<<0, 1, 0, 2>>}
      [] t = 15 -> {<<1, 0, 1>>, <<0, 0, 1>>}
      [] OTHER -> {<<>>}

Chunks == UNION {{<<t>> \o pl : pl \in PayloadsOf(t)} : t \in TagBytes}

PoolInputs ==
    {SubSeq(full, 1, Len(full) - cut) :
        full \in {Flatten(cs) : cs \in SeqsUpTo(Chunks, MaxEntries)},
        cut \in 0..MaxCut}

InitPool ==
    /\ buf \in PoolInputs
    /\ pos = 0
    /\ endian = "Big"
    /\ debug_assertions \in BOOLEAN
    /\ cp_count \in 0..MaxEntries + 1
    /\ i = 0
    /\ entries = <<>>
    /\ pc = "pool"
    /\ last = NoLast
    /\ diag = NoDiag
    /\ result = <<>>
    /\ ParkFlags /\ ParkFile

\* the body of the loop of parse_constant_pool, once
PoolStep ==
    /\ i < cp_count
    /\ LET it == pool_iteration(buf, pos, endian, entries)
       IN  /\ last' = [op |-> "cp_entry", byte |-> it.byte, tag |-> it.tag,
                       pos0 |-> pos, i0 |-> i, res |-> it.r.res]
           /\ pos' = it.r.pos
           /\ entries' = it.es
           /\ diag' = it.r.diag
           /\ i' = IF it.r.res = "Ok" THEN advance(i, it.tag) ELSE i
           /\ pc' = IF it.r.res = "Ok" THEN pc ELSE "panicked"

ParsePoolEntry ==
    /\ pc = "pool"
    /\ PoolStep
    /\ UNCHANGED <<buf, endian, debug_assertions, cp_count, ctx, flags,
                   result, cf>>

\* the loop condition fails: ConstantPool { entries } is returned
ReturnPool ==
    /\ pc = "pool"
    /\ ~(i < cp_count)
    /\ pc' = "pool_done"
    /\ result' = entries
    /\ UNCHANGED <<buf, pos, endian, debug_assertions, last, cp_count, i,
                   entries, diag, ctx, flags, cf>>

NextPool == ParsePoolEntry \/ ReturnPool

SpecPool == InitPool /\ [][NextPool]_vars

\* the tags the class-file format accepts, and the payload size of each
AcceptedTags == {1, 3, 4, 5, 6, 7, 8, 9, 10, 11, 12, 15, 16, 17, 18, 19, 20}

PayloadBytes(t, b, p) ==
    CASE t = 1 -> IF p + 2 <= Len(b) THEN 2 + b[p + 1] * 256 + b[p + 2] ELSE 2
      [] t \in {3, 4, 9, 10, 11, 12, 17, 18} -> 4
      [] t \in {5, 6} -> 8
      [] t \in {7, 8, 16, 19, 20} -> 2
      [] t = 15 -> 3
      [] OTHER -> 0

\* the payload of the entry read last lies wholly inside the buffer (and a
\* MethodHandle's reference kind is one of the nine defined kinds)
EnoughPayload ==
    /\ last.pos0 + 1 + PayloadBytes(last.byte, buf, last.pos0 + 1) <= Len(buf)
    /\ last.byte = 15 => buf[last.pos0 + 2] \in 1..9

\* C1: every accepted constant-pool tag is decoded into a pool entry when its
\* payload is present, and every other tag byte makes construction fail.
C1_AcceptedTagsDecode ==
    (last.op = "cp_entry" /\ last.byte # -1) =>
        /\ (last.byte \in AcceptedTags /\ EnoughPayload) => last.res = "Ok"
        /\ last.byte \notin AcceptedTags => last.res = "Panic"

\* C2: a pool built for constant_pool_count = cp_count + 1 (the builder's
\* argument is constant_pool_count - 1) has exactly that many slots.
C2_PoolLength == pc = "pool_done" => Len(result) = cp_count

IsWide(en) == en.kind = "Long" \/ en.kind = "Double"

\* C3: at every step the slot after each Long or Double is the Null sentinel,
\* a Null slot only ever follows a Long or Double, and emitting a Long or
\* Double advances the logical counter by two.
C3_SentinelAfterWide ==
    pc \in {"pool", "pool_done"} =>
        /\ \A k \in 1..Len(entries) :
              /\ IsWide(entries[k]) =>
                    (k < Len(entries) /\ entries[k + 1] = Null)
              /\ entries[k] = Null => (k > 1 /\ IsWide(entries[k - 1]))
        /\ (last.op = "cp_entry" /\ last.res = "Ok") =>
              i = last.i0 + (IF last.tag \in {"Long", "Double"} THEN 2 ELSE 1)
        /\ i = Len(entries)

C3_Witness ==
    /\ pc = "pool_done"
    /\ Len(entries) = 3
    /\ entries[1].kind = "Long" /\ entries[2] = Null
    /\ entries[3].kind = "Utf8"

----------------------------------------------------------------------------
(* classfile::parse_class_file                                             *)

EXPECTED_MAGIC_NUMBER == <<51966, 47806>>     \* 0xcafebabe as two halves

\* one digit of {:x}
LowerHexDigit(dg) == IF dg < 10 THEN 48 + dg ELSE 87 + dg

\* one digit of {:X}
UpperHexDigit(dg) == IF dg < 10 THEN 48 + dg ELSE 55 + dg

\* {:04x} of one 16-bit half
LowerHex4(h) ==
    [k \in 1..4 |-> LowerHexDigit((h \div Pow(16, 4 - k)) % 16)]

\* {:08x} of a u32
LowerHex8(w) == LowerHex4(w[1]) \o LowerHex4(w[2])

\* "Wrong magic number: expected 0x{:08x} but was 0x{:08x}."
WrongMagicMessage(expected, actual) ==
    <<87, 114, 111, 110, 103, 32, 109, 97, 103, 105, 99, 32, 110, 117, 109, 98, 101, 114, 58, 32, 101, 120, 112, 101, 99, 116, 101, 100, 32, 48, 120>>
    \o LowerHex8(expected)
    \o <<32, 98, 117, 116, 32, 119, 97, 115, 32, 48, 120>>
    \o LowerHex8(actual)
    \o <<46>>

\* crate::access_flags::parse_access_flags applied to the class flag word
parse_access_flags(f) == parse_class_access_flags(f)

CfEmpty ==
    [made |-> FALSE, minor_version |-> 0, major_version |-> 0,
     constant_pool |-> <<>>, access_flags |-> <<>>, this_class |-> 0,
     super_class |-> 0, interfaces |-> <<>>, fields |-> <<>>,
     methods |-> <<>>, attributes |-> <<>>,
     \* the locals *_count of parse_class_file
     constant_pool_count |-> 0, interfaces_count |-> 0, fields_count |-> 0,
     methods_count |-> 0, attributes_count |-> 0]

(* Inputs: class files assembled field by field, possibly truncated.       *)
U16Bytes(n) == <<n \div 256, n % 256>>

MagicInputs ==
    {<<202, 254, 186, 190>>, <<222, 173, 190, 239>>, <<202, 254, 186, 191>>,
     <<190, 186, 254, 202>>, <<0, 0, 0, 0>>}

CfChunks == {<<1, 0, 1, 65>>, <<5, 0, 0, 0, 0, 0, 0, 0, 1>>}

ClassFlagInputs == {33, 2}

\* n member structures (field_info / method_info) without attributes
RECURSIVE Members(_)
Members(n) ==
    IF n = 0 THEN <<>> ELSE <<0, 2, 0, 1, 0, 1, 0, 0>> \o Members(n - 1)

\* n attribute_info structures with an empty payload
RECURSIVE Attributes(_)
Attributes(n) ==
    IF n = 0 THEN <<>> ELSE <<0, 1, 0, 0, 0, 0>> \o Attributes(n - 1)

RECURSIVE Interfaces(_)
Interfaces(n) == IF n = 0 THEN <<>> ELSE <<0, 1>> \o Interfaces(n - 1)

ClassFileInputs ==
    {SubSeq(full, 1, Len(full) - cut) :
        full \in
            {m \o <<0, 0, 0, 52>> \o U16Bytes(cnt) \o Flatten(cs)
               \o U16Bytes(fl) \o <<0, 1, 0, 1>>
               \o U16Bytes(ni) \o Interfaces(ni)
               \o U16Bytes(nf) \o Members(nf)
               \o U16Bytes(nm) \o Members(nm)
               \o U16Bytes(na) \o Attributes(na) :
                m \in {<<202, 254, 186, 190>>},
                cnt \in 0..MaxEntries + 1,
                cs \in SeqsUpTo(CfChunks, MaxEntries),
                fl \in ClassFlagInputs,
                ni \in 0..MaxMembers, nf \in 0..MaxMembers,
                nm \in 0..MaxMembers, na \in 0..MaxMembers}
            \cup {m \o <<0, 0, 0, 52, 0, 1, 0, 33>> : m \in MagicInputs}
            \cup MagicInputs,
        cut \in 0..1}

InitClassFile ==
    /\ buf \in ClassFileInputs
    /\ pos = 0
    /\ endian = "Big"
    /\ debug_assertions \in BOOLEAN
    /\ pc = "cf_magic"
    /\ cf = CfEmpty
    /\ last = NoLast
    /\ diag = NoDiag
    /\ result = <<>>
    /\ ParkPool /\ ParkFlags

\* a step of parse_class_file that panicked
CfPanic(r) ==
    /\ pc' = "panicked"
    /\ pos' = r.pos
    /\ diag' = r.diag
    /\ UNCHANGED <<buf, endian, debug_assertions, last, cp_count, i, entries,
                   ctx, flags, result, cf>>

\* a step of parse_class_file that went through
CfGo(next_pc, p, new_cf) ==
    /\ pc' = next_pc
    /\ pos' = p
    /\ cf' = new_cf
    /\ UNCHANGED <<buf, endian, debug_assertions, last, cp_count, i, entries,
                   diag, ctx, flags, result>>

\* a magic check that prints both numbers in upper-case hexadecimal
magic_check_upper(actual, p) ==
    IF actual # EXPECTED_MAGIC_NUMBER
    THEN Panic(p, [kind |-> "WrongMagic",
                   text |-> <<87, 114, 111, 110, 103, 32, 109, 97, 103, 105, 99, 32, 110, 117, 109, 98, 101, 114, 58, 32, 101, 120, 112, 101, 99, 116, 101, 100, 32, 48, 120>>
                            \o [k \in 1..8 |->
                                  UpperHexDigit((EXPECTED_MAGIC_NUMBER[(k + 3) \div 4]
                                      \div Pow(16, (8 - k) % 4)) % 16)]
                            \o <<32, 98, 117, 116, 32, 119, 97, 115, 32, 48, 120>>
                            \o [k \in 1..8 |->
                                  UpperHexDigit((actual[(k + 3) \div 4]
                                      \div Pow(16, (8 - k) % 4)) % 16)]
                            \o <<46>>])
    ELSE Ok(p, actual)

\* if actual_magic_number != EXPECTED_MAGIC_NUMBER { panic!(..) }
magic_check(actual, p) ==
    IF actual # EXPECTED_MAGIC_NUMBER
    THEN Panic(p, [kind |-> "WrongMagic",
                   text |-> WrongMagicMessage(EXPECTED_MAGIC_NUMBER, actual)])
    ELSE Ok(p, actual)

CfMagic ==
    /\ pc = "cf_magic"
    /\ LET r == Unwrap(read_u32(buf, pos, endian))
           m == magic_check(r.val, r.pos)
       IN  IF r.res # "Ok" THEN CfPanic(r)
           ELSE IF m.res # "Ok" THEN CfPanic(m)
           ELSE CfGo("cf_version", r.pos, cf)

CfVersions ==
    /\ pc = "cf_version"
    /\ LET mi == Unwrap(read_u16(buf, pos, endian))
           ma == Unwrap(read_u16(buf, mi.pos, endian))
       IN  IF mi.res # "Ok" THEN CfPanic(mi)
           ELSE IF ma.res # "Ok" THEN CfPanic(ma)
           ELSE CfGo("cf_pool_count", ma.pos,
                     [cf EXCEPT !.minor_version = mi.val,
                                !.major_version = ma.val])

\* let cp_count = read_u16; parse_constant_pool(&mut reader, (cp_count - 1).into())
CfPoolCount ==
    /\ pc = "cf_pool_count"
    /\ LET c == Unwrap(read_u16(buf, pos, endian))
       IN  IF c.res # "Ok" THEN CfPanic(c)
           ELSE IF c.val = 0 /\ debug_assertions
           THEN CfPanic(Panic(c.pos, [kind |-> "SubtractOverflow"]))
           ELSE /\ pc' = "cf_pool"
                /\ pos' = c.pos
                /\ cf' = [cf EXCEPT !.constant_pool_count = c.val]
                /\ cp_count' = (c.val - 1) % 65536
                /\ i' = 0
                /\ entries' = <<>>
                /\ UNCHANGED <<buf, endian, debug_assertions, last, diag, ctx,
                               flags, result>>

CfPoolEntry ==
    /\ pc = "cf_pool"
    /\ PoolStep
    /\ UNCHANGED <<buf, endian, debug_assertions, cp_count, ctx, flags,
                   result, cf>>

CfPoolDone ==
    /\ pc = "cf_pool"
    /\ ~(i < cp_count)
    /\ CfGo("cf_flags", pos, [cf EXCEPT !.constant_pool = entries])

CfAccessFlags ==
    /\ pc = "cf_flags"
    /\ LET f == Unwrap(read_u16(buf, pos, endian))
           a == parse_access_flags(f.val)
       IN  IF f.res # "Ok" THEN CfPanic(f)
           ELSE IF a.res # "Ok" THEN CfPanic(Panic(f.pos, a.diag))
           ELSE CfGo("cf_this", f.pos, [cf EXCEPT !.access_flags = a.val])

CfThisSuper ==
    /\ pc = "cf_this"
    /\ LET t == Unwrap(read_u16(buf, pos, endian))
           u == Unwrap(read_u16(buf, t.pos, endian))
       IN  IF t.res # "Ok" THEN CfPanic(t)
           ELSE IF u.res # "Ok" THEN CfPanic(u)
           ELSE CfGo("cf_interfaces", u.pos,
                     [cf EXCEPT !.this_class = t.val, !.super_class = u.val])

CfInterfaces ==
    /\ pc = "cf_interfaces"
    /\ LET c == Unwrap(read_u16(buf, pos, endian))
           v == Unwrap(read_u16_vec(buf, c.pos, endian, c.val,
                                    debug_assertions))
       IN  IF c.res # "Ok" THEN CfPanic(c)
           ELSE IF v.res # "Ok" THEN CfPanic(v)
           ELSE CfGo("cf_fields", v.pos,
                     [cf EXCEPT !.interfaces_count = c.val,
                                !.interfaces = v.val])

\* Vec::with_capacity(n): an empty vector
with_capacity(n) == <<>>

CfFields ==
    /\ pc = "cf_fields"
    /\ LET c == Unwrap(read_u16(buf, pos, endian))
       IN  IF c.res # "Ok" THEN CfPanic(c)
           ELSE CfGo("cf_methods", c.pos,
                     [cf EXCEPT !.fields_count = c.val,
                                !.fields = with_capacity(c.val)])

CfMethods ==
    /\ pc = "cf_methods"
    /\ LET c == Unwrap(read_u16(buf, pos, endian))
       IN  IF c.res # "Ok" THEN CfPanic(c)
           ELSE CfGo("cf_attributes", c.pos,
                     [cf EXCEPT !.methods_count = c.val,
                                !.methods = with_capacity(c.val)])

\* the last count, then the ClassFile value is built and returned
CfAttributes ==
    /\ pc = "cf_attributes"
    /\ LET c == Unwrap(read_u16(buf, pos, endian))
       IN  IF c.res # "Ok" THEN CfPanic(c)
           ELSE CfGo("cf_done", c.pos,
                     [cf EXCEPT !.attributes_count = c.val,
                                !.attributes = with_capacity(c.val),
                                !.made = TRUE])

NextClassFile ==
    \/ CfMagic \/ CfVersions \/ CfPoolCount \/ CfPoolEntry \/ CfPoolDone
    \/ CfAccessFlags \/ CfThisSuper \/ CfInterfaces \/ CfFields
    \/ CfMethods \/ CfAttributes

SpecClassFile == InitClassFile /\ [][NextClassFile]_vars

HexTable == <<48, 49, 50, 51, 52, 53, 54, 55, 56, 57, 97, 98, 99, 100, 101, 102>>

\* "0x" and the eight lower-case hexadecimal digits of four bytes
HexOfBytes(bs) ==
    <<48, 120>> \o [k \in 1..8 |->
        HexTable[1 + (IF k % 2 = 1 THEN bs[(k + 1) \div 2] \div 16
                                   ELSE bs[k \div 2] % 16)]]

BadMagic == Len(buf) >= 4 /\ SubSeq(buf, 1, 4) # <<202, 254, 186, 190>>

\* C9: when the first four bytes are not CA FE BA BE, parse_class_file fails
\* right after them, its diagnostic shows 0xcafebabe and the actual value in
\* lower-case hexadecimal, and no ClassFile is ever produced.
C9_BadMagicFails ==
    (BadMagic /\ pc # "cf_magic") =>
        /\ pc = "panicked"
        /\ pos = 4
        /\ cf = CfEmpty
        /\ diag.kind = "WrongMagic"
        /\ Contains(diag.text, <<48, 120, 99, 97, 102, 101, 98, 97, 98, 101>>)
        /\ Contains(diag.text, HexOfBytes(SubSeq(buf, 1, 4)))

C9_Witness ==
    /\ pc = "panicked" /\ diag.kind = "WrongMagic" /\ pos = 4
    /\ SubSeq(buf, 1, 4) = <<222, 173, 190, 239>>
    /\ Contains(diag.text, <<48, 120, 100, 101, 97, 100, 98, 101, 101, 102>>)

\* C10: after parse_class_file succeeds, interfaces, fields, methods and
\* attributes hold as many elements as the counts read from the file.
C10_SequenceLengths ==
    pc = "cf_done" =>
        /\ Len(cf.interfaces) = cf.interfaces_count
        /\ Len(cf.fields) = cf.fields_count
        /\ Len(cf.methods) = cf.methods_count
        /\ Len(cf.attributes) = cf.attributes_count

----------------------------------------------------------------------------
(* binary_reader: the signed reads and the cursor queries used by the      *)
(* bytecode decoder.                                                       *)

position(b, p) == p
len(b) == Len(b)

read_i8(b, p) ==
    LET r == read_bytes(b, p, 1)
    IN  IF r.res = "Ok"
        THEN Ok(r.pos, IF r.val[1] >= 128 THEN r.val[1] - 256 ELSE r.val[1])
        ELSE r

read_i16(b, p, e) ==
    LET r == read_bytes(b, p, 2)
        u == IF e = "Little" THEN u16_from_le_bytes(r.val)
                             ELSE u16_from_be_bytes(r.val)
    IN  IF r.res = "Ok"
        THEN Ok(r.pos, IF u >= 32768 THEN u - 65536 ELSE u)
        ELSE r

\* i32::from_be_bytes, computed from the signed top byte down
i32_from_be_bytes(bytes) ==
    (IF bytes[1] >= 128 THEN bytes[1] - 256 ELSE bytes[1]) * 16777216
    + bytes[2] * 65536 + bytes[3] * 256 + bytes[4]

read_i32(b, p, e) ==
    LET r == read_bytes(b, p, 4)
    IN  IF r.res = "Ok"
        THEN Ok(r.pos, IF e = "Little"
                       THEN i32_from_be_bytes(<<r.val[4], r.val[3],
                                                r.val[2], r.val[1]>>)
                       ELSE i32_from_be_bytes(r.val))
        ELSE r

read_i32_vec(b, p, e, count) ==
    IF count > Len(b) \/ p + 4 * count > Len(b)
    THEN Err(p)
    ELSE Ok(p + 4 * count,
            [k \in 1..count |->
                read_i32(b, p + 4 * (k - 1), e).val])

----------------------------------------------------------------------------
(* classfile::bytecode::parse_bytecode                                     *)

Insn(name, args) == [name |-> name, args |-> args]

\* the arms without operands: opcode, variant, fields
NoOperandArms ==
    { <<1, "AConstNull", <<>>>>, <<2, "IConst", <<-1>>>>,
      <<3, "IConst", <<0>>>>, <<4, "IConst", <<1>>>>, <<5, "IConst", <<2>>>>,
      <<6, "IConst", <<3>>>>, <<7, "IConst", <<4>>>>, <<8, "IConst", <<5>>>>,
      <<9, "LConst", <<0>>>>, <<10, "LConst", <<1>>>>,
      <<26, "ILoad", <<0>>>>, <<27, "ILoad", <<1>>>>, <<28, "ILoad", <<2>>>>,
      <<29, "ILoad", <<3>>>>, <<30, "LLoad", <<0>>>>, <<31, "LLoad", <<1>>>>,
      <<32, "LLoad", <<2>>>>, <<33, "LLoad", <<3>>>>, <<42, "ALoad", <<0>>>>,
      <<43, "ALoad", <<1>>>>, <<44, "ALoad", <<2>>>>, <<45, "ALoad", <<3>>>>,
      <<50, "AaLoad", <<>>>>,
      <<59, "IStore", <<0>>>>, <<60, "IStore", <<1>>>>,
      <<61, "IStore", <<2>>>>, <<62, "IStore", <<3>>>>,
      <<63, "LStore", <<0>>>>, <<64, "LStore", <<1>>>>,
      <<65, "LStore", <<2>>>>, <<66, "LStore", <<3>>>>,
      <<75, "AStore", <<0>>>>, <<76, "AStore", <<1>>>>,
      <<77, "AStore", <<2>>>>, <<78, "AStore", <<3>>>>,
      <<83, "AaStore", <<>>>>, <<89, "Dup", <<>>>>, <<96, "IAdd", <<>>>>,
      <<97, "LAdd", <<>>>>, <<100, "ISub", <<>>>>, <<105, "LMul", <<>>>>,
      <<109, "LDiv", <<>>>>, <<133, "I2L", <<>>>>, <<173, "LReturn", <<>>>>,
      <<176, "AReturn", <<>>>>, <<177, "Return", <<>>>>,
      <<190, "ArrayLength", <<>>>>, <<191, "AThrow", <<>>>> }

\* the arms with one read_u8 operand
U8Arms ==
    { <<16, "BiPush">>, <<18, "Ldc">>, <<21, "ILoad">>, <<22, "LLoad">>,
      <<25, "ALoad">>, <<54, "IStore">>, <<55, "LStore">>, <<58, "AStore">> }

\* the arms with one read_u16 operand
U16Arms ==
    { <<19, "LdcW">>, <<20, "Ldc2W">>, <<178, "GetStatic">>,
      <<179, "PutStatic">>, <<182, "InvokeVirtual">>,
      <<183, "InvokeSpecial">>, <<184, "InvokeStatic">>, <<187, "New">>,
      <<189, "ANewArray">>, <<192, "CheckCast">> }

\* the arms with one read_i16 branch offset
I16Arms ==
    { <<153, "IfEq">>, <<154, "IfNe">>, <<155, "IfLt">>, <<156, "IfGe">>,
      <<157, "IfGt">>, <<158, "IfLe">>, <<159, "IfIcmpEq">>,
      <<160, "IfIcmpNe">>, <<161, "IfIcmpLt">>, <<162, "IfIcmpGe">>,
      <<163, "IfIcmpGt">>, <<164, "IfIcmpLe">>, <<167, "GoTo">>,
      <<199, "IfNonNull">> }

ArmOf(arms, opcode) == CHOOSE a \in arms : a[1] = opcode

\* a switch arm that skips no padding
skip_padding_none(b, p) == p

\* while !reader.position().is_multiple_of(4) { _ = reader.read_u8(); }
\* the position reached, or -1 when the buffer ends first: the ignored
\* read_u8 error leaves the cursor in place and the loop never exits
skip_padding(b, p) ==
    LET target == p + ((4 - (p % 4)) % 4)
    IN  IF target <= Len(b) \/ p % 4 = 0 THEN target ELSE -1

Hang(p) == [res |-> "Hang", pos |-> p, val |-> <<>>, diag |-> NoDiag]

I32_MAX == 2147483647

\* (high - low + 1).try_into().unwrap(): the usize count, or -1 for a panic
\* (arithmetic overflow or a negative value)
table_count(low, high) ==
    IF low < 0 /\ high > I32_MAX + low THEN -1
    ELSE IF low > 0 /\ high < (-I32_MAX - 1) + low THEN -1
    ELSE IF high - low = I32_MAX THEN -1
    ELSE IF high - low + 1 < 0 THEN -1
    ELSE high - low + 1

RECURSIVE read_pairs_swapped(_, _, _, _, _)
\* read_pairs taking the offset before the match value
read_pairs_swapped(b, p, e, n, acc) ==
    IF n = 0 THEN Ok(p, acc)
    ELSE Then(Unwrap(read_i32(b, p, e)), LAMBDA o :
         Then(Unwrap(read_i32(b, o.pos, e)), LAMBDA m :
             read_pairs_swapped(b, m.pos, e, n - 1,
                                Append(acc, [match_value |-> m.val,
                                             offset |-> o.val]))))

RECURSIVE read_pairs(_, _, _, _, _)
\* for _ in 0..npairs { match_value, offset }
read_pairs(b, p, e, n, acc) ==
    IF n = 0 THEN Ok(p, acc)
    ELSE Then(Unwrap(read_i32(b, p, e)), LAMBDA m :
         Then(Unwrap(read_i32(b, m.pos, e)), LAMBDA o :
             read_pairs(b, o.pos, e, n - 1,
                        Append(acc, [match_value |-> m.val,
                                     offset |-> o.val]))))

tableswitch_arm(b, p, e) ==
    IF skip_padding(b, p) = -1 THEN Hang(p)
    ELSE Then(Unwrap(read_i32(b, skip_padding(b, p), e)), LAMBDA df :
         Then(Unwrap(read_i32(b, df.pos, e)), LAMBDA lo :
         Then(Unwrap(read_i32(b, lo.pos, e)), LAMBDA hi :
             IF table_count(lo.val, hi.val) = -1
             THEN Panic(hi.pos, [kind |-> "TryFromIntError"])
             ELSE Then(Unwrap(read_i32_vec(b, hi.pos, e,
                                           table_count(lo.val, hi.val))),
                       LAMBDA os :
                  Ok(os.pos, Insn("TableSwitch",
                                  <<df.val, lo.val, os.val>>))))))

lookupswitch_arm(b, p, e, dbg) ==
    IF skip_padding(b, p) = -1 THEN Hang(p)
    ELSE Then(Unwrap(read_i32(b, skip_padding(b, p), e)), LAMBDA df :
         Then(Unwrap(read_i32(b, df.pos, e)), LAMBDA np :
             IF np.val < 0
             THEN Panic(np.pos, [kind |-> IF dbg THEN "AssertionFailed"
                                                 ELSE "TryFromIntError"])
             ELSE Then(read_pairs(b, np.pos, e, np.val, <<>>), LAMBDA ps :
                  Ok(ps.pos, Insn("LookupSwitch", <<df.val, ps.val>>)))))

\* invokeinterface without the skip of the zero byte
invokeinterface_arm_no_skip(b, p, e) ==
    Then(Unwrap(read_u16(b, p, e)), LAMBDA ix :
    Then(Unwrap(read_u8(b, ix.pos)), LAMBDA ct :
        Ok(ct.pos, Insn("InvokeInterface", <<ix.val, ct.val>>))))

invokeinterface_arm(b, p, e) ==
    Then(Unwrap(read_u16(b, p, e)), LAMBDA ix :
    Then(Unwrap(read_u8(b, ix.pos)), LAMBDA ct :
    Then(Unwrap(read_u8(b, ct.pos)), LAMBDA z :
        Ok(z.pos, Insn("InvokeInterface", <<ix.val, ct.val>>)))))

\* the two skipped bytes are read with their results discarded
invokedynamic_arm(b, p, e) ==
    Then(Unwrap(read_u16(b, p, e)), LAMBDA ix :
        Ok(read_u8(b, read_u8(b, ix.pos).pos).pos,
           Insn("InvokeDynamic", <<ix.val>>)))

iinc_arm(b, p) ==
    Then(Unwrap(read_u8(b, p)), LAMBDA ix :
    Then(Unwrap(read_i8(b, ix.pos)), LAMBDA ct :
        Ok(ct.pos, Insn("IInc", <<ix.val, ct.val>>))))

\* {:02x} of a byte
LowerHex2(x) == <<LowerHexDigit(x \div 16), LowerHexDigit(x % 16)>>

\* "Unknown bytecode instruction 0x{:02x}"
UnknownOpcodeMessage(opcode) == <<85, 110, 107, 110, 111, 119, 110, 32, 98, 121, 116, 101, 99, 111, 100, 101, 32, 105, 110, 115, 116, 114, 117, 99, 116, 105, 111, 110, 32, 48, 120>> \o LowerHex2(opcode)

\* the match on the opcode, with the cursor p just after the opcode byte
decode_opcode(b, p, e, dbg, opcode) ==
    IF \E a \in NoOperandArms : a[1] = opcode
    THEN Ok(p, Insn(ArmOf(NoOperandArms, opcode)[2],
                    ArmOf(NoOperandArms, opcode)[3]))
    ELSE IF \E a \in U8Arms : a[1] = opcode
    THEN Then(Unwrap(read_u8(b, p)), LAMBDA r :
             Ok(r.pos, Insn(ArmOf(U8Arms, opcode)[2], <<r.val>>)))
    ELSE IF \E a \in U16Arms : a[1] = opcode
    THEN Then(Unwrap(read_u16(b, p, e)), LAMBDA r :
             Ok(r.pos, Insn(ArmOf(U16Arms, opcode)[2], <<r.val>>)))
    ELSE IF \E a \in I16Arms : a[1] = opcode
    THEN Then(Unwrap(read_i16(b, p, e)), LAMBDA r :
             Ok(r.pos, Insn(ArmOf(I16Arms, opcode)[2], <<r.val>>)))
    ELSE IF opcode = 132 THEN iinc_arm(b, p)
    ELSE IF opcode = 170 THEN tableswitch_arm(b, p, e)
    ELSE IF opcode = 171 THEN lookupswitch_arm(b, p, e, dbg)
    ELSE IF opcode = 185 THEN invokeinterface_arm(b, p, e)
    ELSE IF opcode = 186 THEN invokedynamic_arm(b, p, e)
    ELSE Panic(p, [kind |-> "UnknownOpcode",
                   text |-> UnknownOpcodeMessage(opcode)])

(* Inputs: up to three aconst_null, one opcode byte, then operand bytes    *)
(* that are all 0 or all 1.                                                *)
RECURSIVE Repeat(_, _)
Repeat(x, n) == IF n = 0 THEN <<>> ELSE <<x>> \o Repeat(x, n - 1)

CodeInputs ==
    {Repeat(1, k) \o <<op>> \o Repeat(f, n) :
        k \in 0..3, op \in 0..255, f \in {0, 1}, n \in 0..MaxOperandBytes}

InitBytecode ==
    /\ buf \in CodeInputs
    /\ pos = 0
    /\ endian = "Big"
    /\ debug_assertions \in BOOLEAN
    /\ pc = "bc"
    /\ result = <<>>
    /\ last = NoLast
    /\ diag = NoDiag
    /\ ParkPool /\ ParkFlags /\ ParkFile

\* one iteration of `while reader.position() < reader.len()`; the map is
\* kept as its key-ordered list of (offset, instruction) pairs
DecodeInstruction ==
    /\ pc = "bc"
    /\ position(buf, pos) < len(buf)
    /\ LET op == read_u8(buf, pos)
           r == decode_opcode(buf, op.pos, endian, debug_assertions, op.val)
       IN  /\ last' = [op |-> "bc_insn", opcode |-> op.val, pos0 |-> pos,
                       res |-> r.res]
           /\ pos' = r.pos
           /\ diag' = r.diag
           /\ result' = IF r.res = "Ok"
                        THEN Append(result, <<pos, r.val>>) ELSE result
           /\ pc' = CASE r.res = "Ok" -> "bc"
                      [] r.res = "Hang" -> "hung"
                      [] OTHER -> "panicked"
    /\ UNCHANGED <<buf, endian, debug_assertions, cp_count, i, entries, ctx,
                   flags, cf>>

\* the loop ends and the instruction map is returned
ReturnInstructions ==
    /\ pc = "bc"
    /\ ~(position(buf, pos) < len(buf))
    /\ pc' = "bc_done"
    /\ UNCHANGED <<buf, pos, endian, debug_assertions, last, cp_count, i,
                   entries, diag, ctx, flags, result, cf>>

NextBytecode == DecodeInstruction \/ ReturnInstructions

SpecBytecode == InitBytecode /\ [][NextBytecode]_vars

\* the opcodes of the supported table of the specification
SpecOpcodes ==
    (1..10) \cup {16, 18, 19, 20, 21, 22, 25} \cup (26..33) \cup (42..45)
    \cup {50, 54, 55, 58} \cup (59..66) \cup (75..78)
    \cup {83, 89, 96, 97, 100, 101, 105, 109, 132, 133, 148}
    \cup (153..164) \cup {167, 170, 171, 172, 173, 176, 177}
    \cup (178..187) \cup {189, 190, 191, 192, 199}

\* the opcodes the decoder has an arm for
DecoderOpcodes ==
    {a[1] : a \in NoOperandArms \cup U8Arms \cup U16Arms \cup I16Arms}
    \cup {132, 170, 171, 185, 186}

\* operand bytes of an opcode that is not a switch
OperandBytes(op) ==
    CASE op \in {16, 18, 21, 22, 25, 54, 55, 58} -> 1
      [] op \in {19, 20, 132, 167, 187, 189, 192, 199} -> 2
      [] op \in 153..164 -> 2
      [] op \in 178..184 -> 2
      [] op \in {185, 186} -> 4
      [] OTHER -> 0

\* the instruction decoded last had all its operand bytes in the buffer (for
\* a switch: zero padding and a zero header with its one-entry table)
EnoughOperands ==
    IF last.opcode \in {170, 171}
    THEN /\ last.pos0 + 20 <= Len(buf)
         /\ \A k \in last.pos0 + 2..Len(buf) : buf[k] = 0
    ELSE last.pos0 + 1 + OperandBytes(last.opcode) <= Len(buf)

\* C6: every opcode of the specification's table is decoded without failure
\* (ireturn, lcmp, lsub, getfield and putfield among them), and an opcode
\* outside the decoder's table fails with the opcode byte in the diagnostic.
C6_SupportedOpcodesDecode ==
    last.op = "bc_insn" =>
        /\ (last.opcode \in SpecOpcodes /\ EnoughOperands) => last.res = "Ok"
        /\ last.opcode \notin DecoderOpcodes =>
              /\ last.res = "Panic"
              /\ Contains(diag.text,
                          <<48, 120, HexTable[1 + (last.opcode \div 16)],
                            HexTable[1 + (last.opcode % 16)]>>)

----------------------------------------------------------------------------
(* classfile::constant_pool: convert_utf8 and ConstantPool::get_utf8_content *)

RECURSIVE replace(_, _, _)
\* str::replace of the one-byte pattern c by the byte string rep
replace(str, c, rep) ==
    IF str = <<>> THEN <<>>
    ELSE (IF Head(str) = c THEN rep ELSE <<Head(str)>>)
         \o replace(Tail(str), c, rep)

IsCont(x) == x >= 128 /\ x <= 191

\* length of the well-formed UTF-8 sequence at the head of s, 0 if none
utf8_width(s) ==
    LET b1 == s[1]
        b2 == IF Len(s) >= 2 THEN s[2] ELSE 0
        b3 == IF Len(s) >= 3 THEN s[3] ELSE 0
        b4 == IF Len(s) >= 4 THEN s[4] ELSE 0
    IN  IF b1 < 128 THEN 1
        ELSE IF b1 >= 194 /\ b1 <= 223
        THEN IF IsCont(b2) THEN 2 ELSE 0
        ELSE IF b1 = 224
        THEN IF b2 >= 160 /\ b2 <= 191 /\ IsCont(b3) THEN 3 ELSE 0
        ELSE IF b1 = 237
        THEN IF b2 >= 128 /\ b2 <= 159 /\ IsCont(b3) THEN 3 ELSE 0
        ELSE IF b1 >= 225 /\ b1 <= 239
        THEN IF IsCont(b2) /\ IsCont(b3) THEN 3 ELSE 0
        ELSE IF b1 = 240
        THEN IF b2 >= 144 /\ b2 <= 191 /\ IsCont(b3) /\ IsCont(b4)
             THEN 4 ELSE 0
        ELSE IF b1 >= 241 /\ b1 <= 243
        THEN IF IsCont(b2) /\ IsCont(b3) /\ IsCont(b4) THEN 4 ELSE 0
        ELSE IF b1 = 244
        THEN IF b2 >= 128 /\ b2 <= 143 /\ IsCont(b3) /\ IsCont(b4)
             THEN 4 ELSE 0
        ELSE 0

RECURSIVE from_utf8_is_ok(_)
\* String::from_utf8(..).is_ok()
from_utf8_is_ok(s) ==
    IF s = <<>> THEN TRUE
    ELSE IF utf8_width(s) = 0 THEN FALSE
    ELSE from_utf8_is_ok(SubSeq(s, utf8_width(s) + 1, Len(s)))

\* .replace("\n", "\\n").replace("'", "\\'").replace("\u{0001}", "\\u0001")
escape_text(str) ==
    replace(replace(replace(str, 10, <<92, 110>>), 39, <<92, 39>>),
            1, <<92, 117, 48, 48, 48, 49>>)

\* String::from_utf8(bytes).unwrap() then the three replacements
convert_utf8(utf8_bytes) ==
    IF from_utf8_is_ok(utf8_bytes) THEN Ok(0, escape_text(utf8_bytes))
    ELSE Panic(0, [kind |-> "FromUtf8Error"])

\* &self[cp_index - 1]: index 0 underflows or is out of bounds
cp_entry(es, cp_index) ==
    IF cp_index = 0 \/ cp_index > Len(es)
    THEN Panic(0, [kind |-> "IndexOutOfBounds", index |-> cp_index])
    ELSE Ok(0, es[cp_index])

Expected(variant, cp_index) ==
    Panic(0, [kind |-> "WrongVariant", expected |-> variant,
              index |-> cp_index])

starts_with(str, c) == str # <<>> /\ Head(str) = c

\* get_utf8_content without the quotes around a '[' payload
get_utf8_content_unquoted(es, cp_index) ==
    Then(cp_entry(es, cp_index), LAMBDA name_entry :
        IF name_entry.val.kind # "Utf8" THEN Expected("Utf8", cp_index)
        ELSE convert_utf8(name_entry.val.bytes))

\* val is the String
get_utf8_content(es, cp_index) ==
    Then(cp_entry(es, cp_index), LAMBDA name_entry :
        IF name_entry.val.kind # "Utf8" THEN Expected("Utf8", cp_index)
        ELSE Then(convert_utf8(name_entry.val.bytes), LAMBDA content :
                  IF starts_with(content.val, 91)
                  THEN Ok(0, <<34>> \o content.val \o <<34>>)
                  ELSE content))

get_class_name(es, cp_index) ==
    Then(cp_entry(es, cp_index), LAMBDA class_entry :
        IF class_entry.val.kind = "Class"
        THEN get_utf8_content(es, class_entry.val.a)
        ELSE Expected("Class", cp_index))

get_name_and_type_string(es, name_index, descriptor_index) ==
    Then(get_utf8_content(es, name_index), LAMBDA name :
    Then(get_utf8_content(es, descriptor_index), LAMBDA descriptor :
        IF starts_with(name.val, 60)
        THEN Ok(0, <<34>> \o name.val \o <<34, 58>> \o descriptor.val)
        ELSE Ok(0, name.val \o <<58>> \o descriptor.val)))

get_name_and_type(es, cp_index) ==
    Then(cp_entry(es, cp_index), LAMBDA name_and_type_entry :
        IF name_and_type_entry.val.kind = "NameAndType"
        THEN get_name_and_type_string(es, name_and_type_entry.val.a,
                                      name_and_type_entry.val.b)
        ELSE Expected("NameAndType", cp_index))

get_method_ref_string(es, class_index, name_and_type_index) ==
    Then(get_class_name(es, class_index), LAMBDA class_name :
    Then(get_name_and_type(es, name_and_type_index), LAMBDA nat :
        Ok(0, class_name.val \o <<46>> \o nat.val)))

\* get_method_ref without the InterfaceMethodRef arm
get_method_ref_only(es, cp_index) ==
    Then(cp_entry(es, cp_index), LAMBDA method_ref_entry :
        IF method_ref_entry.val.kind = "MethodRef"
        THEN get_method_ref_string(es, method_ref_entry.val.a,
                                   method_ref_entry.val.b)
        ELSE Expected("Methodref", cp_index))

get_method_ref(es, cp_index) ==
    Then(cp_entry(es, cp_index), LAMBDA method_ref_entry :
        IF method_ref_entry.val.kind \in {"MethodRef", "InterfaceMethodRef"}
        THEN get_method_ref_string(es, method_ref_entry.val.a,
                                   method_ref_entry.val.b)
        ELSE Expected("Methodref", cp_index))

get_field_ref_string(es, class_index, name_and_type_index) ==
    Then(get_class_name(es, class_index), LAMBDA class_name :
    Then(get_name_and_type(es, name_and_type_index), LAMBDA nat :
        Ok(0, class_name.val \o <<46>> \o nat.val)))

get_field_ref(es, cp_index) ==
    Then(cp_entry(es, cp_index), LAMBDA field_ref_entry :
        IF field_ref_entry.val.kind = "FieldRef"
        THEN get_field_ref_string(es, field_ref_entry.val.a,
                                  field_ref_entry.val.b)
        ELSE Expected("Fieldref", cp_index))

get_field_ref_name_and_type(es, cp_index) ==
    Then(cp_entry(es, cp_index), LAMBDA field_ref_entry :
        IF field_ref_entry.val.kind = "FieldRef"
        THEN get_name_and_type(es, field_ref_entry.val.b)
        ELSE Expected("Fieldref", cp_index))

RECURSIVE to_string(_)
\* u16::to_string: decimal digits
to_string(n) ==
    IF n < 10 THEN <<48 + n>>
    ELSE to_string(n \div 10) \o <<48 + (n % 10)>>

get_invoke_dynamic_string(es, bootstrap_method_attr_index, name_and_type_index) ==
    Then(get_name_and_type(es, name_and_type_index), LAMBDA nat :
        Ok(0, <<35>> \o to_string(bootstrap_method_attr_index)
              \o <<58>> \o nat.val))

get_invoke_dynamic(es, cp_index) ==
    Then(cp_entry(es, cp_index), LAMBDA invoke_dynamic_entry :
        IF invoke_dynamic_entry.val.kind = "InvokeDynamic"
        THEN get_invoke_dynamic_string(es, invoke_dynamic_entry.val.a,
                                       invoke_dynamic_entry.val.b)
        ELSE Expected("InvokeDynamic", cp_index))

----------------------------------------------------------------------------
(* classfile::bytecode::parse_bytecode and classfile::attributes           *)

RECURSIVE parse_bytecode(_, _, _, _, _)
\* while reader.position() < reader.len() { instructions.insert(..) }
parse_bytecode(b, p, e, dbg, acc) ==
    IF ~(position(b, p) < len(b)) THEN Ok(p, acc)
    ELSE Then(decode_opcode(b, read_u8(b, p).pos, e, dbg, read_u8(b, p).val),
              LAMBDA r : parse_bytecode(b, r.pos, e, dbg,
                                        Append(acc, <<p, r.val>>)))

STR_SourceFile == <<83, 111, 117, 114, 99, 101, 70, 105, 108, 101>>
STR_InnerClasses == <<73, 110, 110, 101, 114, 67, 108, 97, 115, 115, 101, 115>>
STR_BootstrapMethods == <<66, 111, 111, 116, 115, 116, 114, 97, 112, 77, 101, 116, 104, 111, 100, 115>>
STR_Record == <<82, 101, 99, 111, 114, 100>>
STR_Signature == <<83, 105, 103, 110, 97, 116, 117, 114, 101>>
STR_Code == <<67, 111, 100, 101>>
STR_MethodParameters == <<77, 101, 116, 104, 111, 100, 80, 97, 114, 97, 109, 101, 116, 101, 114, 115>>
STR_LineNumberTable == <<76, 105, 110, 101, 78, 117, 109, 98, 101, 114, 84, 97, 98, 108, 101>>
STR_LocalVariableTable == <<76, 111, 99, 97, 108, 86, 97, 114, 105, 97, 98, 108, 101, 84, 97, 98, 108, 101>>
STR_StackMapTable == <<83, 116, 97, 99, 107, 77, 97, 112, 84, 97, 98, 108, 101>>
STR_Deprecated == <<68, 101, 112, 114, 101, 99, 97, 116, 101, 100>>
STR_ConstantValue == <<67, 111, 110, 115, 116, 97, 110, 116, 86, 97, 108, 117, 101>>

RECURSIVE read_rows(_, _, _, _, _, _)
\* for _ in 0..count { width consecutive reader.read_u16().unwrap() }
read_rows(b, p, e, count, width, acc) ==
    IF count = 0 THEN Ok(p, acc)
    ELSE Then(read_u16_loop(b, p, e, width, <<>>),
              LAMBDA row : read_rows(b, row.pos, e, count - 1, width,
                                     Append(acc, row.val)))

\* verification_type with the variants of tags 3 and 4 exchanged
verification_type_3_long(b, e, t) ==
    CASE t.val = 3 -> Ok(t.pos, [kind |-> "LongVariable"])
      [] t.val = 4 -> Ok(t.pos, [kind |-> "DoubleVariable"])
      [] t.val \in {0, 1, 2, 5, 6} ->
           Ok(t.pos, [kind |-> <<"TopVariable", "IntegerVariable",
                                 "FloatVariable", "", "", "NullVariable",
                                 "UninitializedThisVariable">>[t.val + 1]])
      [] t.val = 7 ->
           Then(Unwrap(read_u16(b, t.pos, e)),
                LAMBDA x : Ok(x.pos, [kind |-> "ObjectVariable",
                                      constant_pool_index |-> x.val]))
      [] t.val = 8 ->
           Then(Unwrap(read_u16(b, t.pos, e)),
                LAMBDA x : Ok(x.pos, [kind |-> "UninitializedVariable",
                                      offset |-> x.val]))
      [] OTHER ->
           Panic(t.pos, [kind |-> "WrongVerificationTypeTag",
                         value |-> t.val])

verification_type(b, e, t) ==
    CASE t.val = 0 -> Ok(t.pos, [kind |-> "TopVariable"])
      [] t.val = 1 -> Ok(t.pos, [kind |-> "IntegerVariable"])
      [] t.val = 2 -> Ok(t.pos, [kind |-> "FloatVariable"])
      [] t.val = 3 -> Ok(t.pos, [kind |-> "DoubleVariable"])
      [] t.val = 4 -> Ok(t.pos, [kind |-> "LongVariable"])
      [] t.val = 5 -> Ok(t.pos, [kind |-> "NullVariable"])
      [] t.val = 6 -> Ok(t.pos, [kind |-> "UninitializedThisVariable"])
      [] t.val = 7 ->
           Then(Unwrap(read_u16(b, t.pos, e)),
                LAMBDA x : Ok(x.pos, [kind |-> "ObjectVariable",
                                      constant_pool_index |-> x.val]))
      [] t.val = 8 ->
           Then(Unwrap(read_u16(b, t.pos, e)),
                LAMBDA x : Ok(x.pos, [kind |-> "UninitializedVariable",
                                      offset |-> x.val]))
      [] OTHER ->
           Panic(t.pos, [kind |-> "WrongVerificationTypeTag",
                         value |-> t.val])

parse_verification_type_info(b, p, e) ==
    Then(Unwrap(read_u8(b, p)), LAMBDA t : verification_type(b, e, t))

RECURSIVE parse_verification_type_info_vec(_, _, _, _, _)
parse_verification_type_info_vec(b, p, e, num, acc) ==
    IF num = 0 THEN Ok(p, acc)
    ELSE Then(parse_verification_type_info(b, p, e),
              LAMBDA v : parse_verification_type_info_vec(
                             b, v.pos, e, num - 1, Append(acc, v.val)))

\* the 255 arm of parse_stack_map_entry, after offset_delta
full_frame(b, e, od) ==
    Then(Unwrap(read_u16(b, od.pos, e)), LAMBDA nl :
    Then(parse_verification_type_info_vec(b, nl.pos, e, nl.val, <<>>),
         LAMBDA lc :
    Then(Unwrap(read_u16(b, lc.pos, e)), LAMBDA ns :
    Then(parse_verification_type_info_vec(b, ns.pos, e, ns.val, <<>>),
         LAMBDA st :
    Ok(st.pos, [kind |-> "FullFrame", offset_delta |-> od.val,
                locals |-> lc.val, stack |-> st.val])))))

\* the arms 247..=255 of parse_stack_map_entry, which read offset_delta first
extended_frame(b, e, frame_type, od) ==
    IF frame_type = 247
    THEN Then(parse_verification_type_info(b, od.pos, e), LAMBDA st :
              Ok(st.pos, [kind |-> "SameLocals1StackItemFrameExtended",
                          offset_delta |-> od.val, stack |-> st.val]))
    ELSE IF frame_type <= 250
    THEN Ok(od.pos, [kind |-> "ChopFrame", frame_type |-> frame_type,
                     offset_delta |-> od.val])
    ELSE IF frame_type = 251
    THEN Ok(od.pos, [kind |-> "SameFrameExtended", offset_delta |-> od.val])
    ELSE IF frame_type <= 254
    THEN Then(parse_verification_type_info_vec(b, od.pos, e,
                                               frame_type - 251, <<>>),
              LAMBDA lc :
              Ok(lc.pos, [kind |-> "AppendFrame", frame_type |-> frame_type,
                          offset_delta |-> od.val, locals |-> lc.val]))
    ELSE full_frame(b, e, od)

\* stack_map_frame with the reserved range decoded as SameFrame
stack_map_frame_no_reserved(b, e, ft) ==
    IF ft.val <= 63 \/ (ft.val >= 128 /\ ft.val <= 246)
    THEN Ok(ft.pos, [kind |-> "SameFrame", frame_type |-> ft.val])
    ELSE IF ft.val <= 127
    THEN Then(parse_verification_type_info(b, ft.pos, e), LAMBDA st :
              Ok(st.pos, [kind |-> "SameLocals1StackItemFrame",
                          frame_type |-> ft.val, stack |-> st.val]))
    ELSE Then(Unwrap(read_u16(b, ft.pos, e)),
              LAMBDA od : extended_frame(b, e, ft.val, od))

stack_map_frame(b, e, ft) ==
    IF ft.val <= 63
    THEN Ok(ft.pos, [kind |-> "SameFrame", frame_type |-> ft.val])
    ELSE IF ft.val <= 127
    THEN Then(parse_verification_type_info(b, ft.pos, e), LAMBDA st :
              Ok(st.pos, [kind |-> "SameLocals1StackItemFrame",
                          frame_type |-> ft.val, stack |-> st.val]))
    ELSE IF ft.val <= 246
    THEN Panic(ft.pos, [kind |-> "ReservedFrameType", value |-> ft.val])
    ELSE Then(Unwrap(read_u16(b, ft.pos, e)),
              LAMBDA od : extended_frame(b, e, ft.val, od))

parse_stack_map_entry(b, p, e) ==
    Then(Unwrap(read_u8(b, p)), LAMBDA ft : stack_map_frame(b, e, ft))

RECURSIVE parse_stack_map_entries(_, _, _, _, _)
\* for _ in 0..number_of_entries { stack_map_table.push(..) }
parse_stack_map_entries(b, p, e, num, acc) ==
    IF num = 0 THEN Ok(p, acc)
    ELSE Then(parse_stack_map_entry(b, p, e),
              LAMBDA f : parse_stack_map_entries(b, f.pos, e, num - 1,
                                                 Append(acc, f.val)))

\* attribute_name_index, the name through the pool, the ignored length
attribute_header(es, b, p, e) ==
    Then(Unwrap(read_u16(b, p, e)), LAMBDA ni :
    Then(At(get_utf8_content(es, ni.val), ni.pos), LAMBDA nm :
    Then(Unwrap(read_u32(b, ni.pos, e)), LAMBDA ln :
    Ok(ln.pos, nm.val))))

NotAnAttribute(p, context, name) ==
    Panic(p, [kind |-> "NotAnAttributeOf", context |-> context,
              name |-> name])

RECURSIVE parse_bootstrap_methods(_, _, _, _, _, _)
parse_bootstrap_methods(b, p, e, dbg, num, acc) ==
    IF num = 0 THEN Ok(p, acc)
    ELSE Then(Unwrap(read_u16(b, p, e)), LAMBDA mr :
         Then(Unwrap(read_u16(b, mr.pos, e)), LAMBDA na :
         Then(Unwrap(read_u16_vec(b, na.pos, e, na.val, dbg)), LAMBDA ar :
         parse_bootstrap_methods(b, ar.pos, e, dbg, num - 1,
             Append(acc, [bootstrap_method_ref |-> mr.val,
                          bootstrap_arguments |-> ar.val])))))

\* access_flags::parse_access_flags applied to an inner class flag word
inner_class_access_flags(f) == parse_inner_class_access_flags(f)

RECURSIVE parse_inner_classes(_, _, _, _, _)
parse_inner_classes(b, p, e, num, acc) ==
    IF num = 0 THEN Ok(p, acc)
    ELSE Then(read_u16_loop(b, p, e, 3, <<>>), LAMBDA ix :
         Then(Unwrap(read_u16(b, ix.pos, e)), LAMBDA fl :
         Then(Unwrap(At(inner_class_access_flags(fl.val), fl.pos)),
              LAMBDA af :
         parse_inner_classes(b, fl.pos, e, num - 1,
             Append(acc, [inner_class_info_index |-> ix.val[1],
                          outer_class_info_index |-> ix.val[2],
                          inner_name_index |-> ix.val[3],
                          inner_class_access_flags |-> af.val])))))

class_attribute(b, e, dbg, h) ==
    IF h.val = STR_SourceFile
    THEN Then(Unwrap(read_u16(b, h.pos, e)), LAMBDA n :
              Ok(n.pos, [kind |-> "SourceFile",
                         source_file_index |-> n.val]))
    ELSE IF h.val = STR_BootstrapMethods
    THEN Then(Unwrap(read_u16(b, h.pos, e)), LAMBDA n :
         Then(parse_bootstrap_methods(b, n.pos, e, dbg, n.val, <<>>),
              LAMBDA ms :
              Ok(ms.pos, [kind |-> "BootstrapMethods", methods |-> ms.val])))
    ELSE IF h.val = STR_InnerClasses
    THEN Then(Unwrap(read_u16(b, h.pos, e)), LAMBDA n :
         Then(parse_inner_classes(b, n.pos, e, n.val, <<>>), LAMBDA cs :
              Ok(cs.pos, [kind |-> "InnerClasses", classes |-> cs.val])))
    ELSE NotAnAttribute(h.pos, "class", h.val)

parse_class_attribute(es, b, p, e, dbg) ==
    Then(attribute_header(es, b, p, e),
         LAMBDA h : class_attribute(b, e, dbg, h))

\* unreachable!()
parse_field_attribute(es, b, p, e) ==
    Panic(p, [kind |-> "Unreachable"])

code_attribute(b, e, h) ==
    IF h.val = STR_LineNumberTable
    THEN Then(Unwrap(read_u16(b, h.pos, e)), LAMBDA n :
         Then(read_rows(b, n.pos, e, n.val, 2, <<>>), LAMBDA rows :
              Ok(rows.pos, [kind |-> "LineNumberTable",
                            line_number_table |-> rows.val])))
    ELSE IF h.val = STR_LocalVariableTable
    THEN Then(Unwrap(read_u16(b, h.pos, e)), LAMBDA n :
         Then(read_rows(b, n.pos, e, n.val, 5, <<>>), LAMBDA rows :
              Ok(rows.pos, [kind |-> "LocalVariableTable",
                            local_variable_table |-> rows.val])))
    ELSE IF h.val = STR_StackMapTable
    THEN Then(Unwrap(read_u16(b, h.pos, e)), LAMBDA n :
         Then(parse_stack_map_entries(b, n.pos, e, n.val, <<>>), LAMBDA fs :
              Ok(fs.pos, [kind |-> "StackMapTable",
                          stack_map_table |-> fs.val])))
    ELSE NotAnAttribute(h.pos, "code", h.val)

parse_code_attribute(es, b, p, e) ==
    Then(attribute_header(es, b, p, e), LAMBDA h : code_attribute(b, e, h))

RECURSIVE parse_code_attributes(_, _, _, _, _, _)
parse_code_attributes(es, b, p, e, num, acc) ==
    IF num = 0 THEN Ok(p, acc)
    ELSE Then(parse_code_attribute(es, b, p, e),
              LAMBDA a : parse_code_attributes(es, b, a.pos, e, num - 1,
                                               Append(acc, a.val)))

\* reader.read_u8_vec(code_length.try_into().unwrap()).unwrap(); a
\* code_length of 65536 or more is longer than any input of the model
read_code_bytes(b, cl) ==
    IF cl.val[1] > 0 THEN Panic(cl.pos, [kind |-> "UnexpectedEof"])
    ELSE Unwrap(read_u8_vec(b, cl.pos, cl.val[2]))

\* the "Code" arm of parse_method_attribute
method_code(es, b, e, dbg, h) ==
    Then(Unwrap(read_u16(b, h.pos, e)), LAMBDA ms :
    Then(Unwrap(read_u16(b, ms.pos, e)), LAMBDA ml :
    Then(Unwrap(read_u32(b, ml.pos, e)), LAMBDA cl :
    Then(read_code_bytes(b, cl), LAMBDA cb :
    Then(At(parse_bytecode(cb.val, 0, "Big", dbg, <<>>), cb.pos),
         LAMBDA code :
    Then(Unwrap(read_u16(b, cb.pos, e)), LAMBDA xl :
    Then(read_rows(b, xl.pos, e, xl.val, 4, <<>>), LAMBDA xt :
    Then(Unwrap(read_u16(b, xt.pos, e)), LAMBDA ac :
    Then(parse_code_attributes(es, b, ac.pos, e, ac.val, <<>>), LAMBDA as :
    Ok(as.pos, [kind |-> "Code", max_stack |-> ms.val,
                max_locals |-> ml.val, code |-> code.val,
                exception_table |-> xt.val,
                attributes |-> as.val]))))))))))

parse_method_attribute(es, b, p, e, dbg) ==
    Then(attribute_header(es, b, p, e), LAMBDA h :
         IF h.val = STR_Code THEN method_code(es, b, e, dbg, h)
         ELSE NotAnAttribute(h.pos, "method", h.val))

(* Inputs: one attribute_info whose name index points into a pool that     *)
(* holds every attribute name, followed by an all-zero payload or by one   *)
(* of a few payloads with non-empty tables.                                *)
AttrNames ==
    <<STR_SourceFile, STR_InnerClasses, STR_BootstrapMethods, STR_Record,
      STR_Signature, STR_Code, STR_MethodParameters, STR_LineNumberTable,
      STR_LocalVariableTable, STR_StackMapTable, STR_Deprecated,
      STR_ConstantValue>>

AttrPool ==
    [k \in 1..Len(AttrNames) |-> [kind |-> "Utf8", bytes |-> AttrNames[k]]]
    \o <<[kind |-> "Class", a |-> 1]>>

AttrPayloads ==
    {Repeat(0, n) : n \in 0..MaxAttrPayload}
    \cup { <<0, 1>>,
           <<0, 1, 0, 5, 0, 1, 0, 7>>,
           <<0, 1, 0, 5, 0, 0>>,
           <<0, 1, 0, 1, 0, 2, 0, 3, 0, 9>>,
           <<0, 1, 0, 1, 0, 2, 0, 3, 0, 32>>,
           <<0, 1, 0, 0, 0, 7>>,
           <<0, 1, 0, 0, 0, 4, 0, 2, 0, 3, 0, 1>>,
           <<0, 2, 64, 7, 0, 1, 253, 0, 3, 1, 4>>,
           <<0, 1, 255, 0, 1, 0, 1, 3, 0, 1, 8, 0, 2>>,
           <<0, 1, 200>>,
           <<0, 1, 0, 1, 0, 0, 0, 2, 4, 177, 0, 1, 0, 0, 0, 2, 0, 2, 0, 0,
             0, 1, 0, 8, 0, 0, 0, 0, 0, 1, 0, 0, 0, 3>>,
           <<0, 1, 0, 1, 0, 0, 0, 1, 101, 0, 0, 0, 0>> }

AttrInputs ==
    {U16Bytes(ni) \o <<0, 0, 0, 0>> \o pl :
        ni \in 0..Len(AttrPool) + 1, pl \in AttrPayloads}
    \cup {<<0>>, <<0, 1, 0>>}

AttrContexts == {"class", "field", "method", "code"}

InitAttr ==
    /\ buf \in AttrInputs
    /\ pos = 0
    /\ endian = "Big"
    /\ debug_assertions \in BOOLEAN
    /\ entries = AttrPool
    /\ ctx \in AttrContexts
    /\ pc = "attr"
    /\ result = <<>>
    /\ last = NoLast
    /\ diag = NoDiag
    /\ cp_count = 0 /\ i = 0 /\ flags = 0 /\ ParkFile

AttrDone(r) ==
    /\ pc' = CASE r.res = "Ok" -> "attr_done"
               [] r.res = "Hang" -> "hung"
               [] OTHER -> "panicked"
    /\ pos' = r.pos
    /\ result' = r.val
    /\ diag' = r.diag
    /\ UNCHANGED <<buf, endian, debug_assertions, last, cp_count, i, entries,
                   ctx, flags, cf>>

ParseClassAttribute ==
    /\ pc = "attr" /\ ctx = "class"
    /\ AttrDone(parse_class_attribute(entries, buf, pos, endian,
                                      debug_assertions))

ParseFieldAttribute ==
    /\ pc = "attr" /\ ctx = "field"
    /\ AttrDone(parse_field_attribute(entries, buf, pos, endian))

ParseMethodAttribute ==
    /\ pc = "attr" /\ ctx = "method"
    /\ AttrDone(parse_method_attribute(entries, buf, pos, endian,
                                       debug_assertions))

ParseCodeAttribute ==
    /\ pc = "attr" /\ ctx = "code"
    /\ AttrDone(parse_code_attribute(entries, buf, pos, endian))

NextAttr ==
    \/ ParseClassAttribute \/ ParseFieldAttribute
    \/ ParseMethodAttribute \/ ParseCodeAttribute

SpecAttr == InitAttr /\ [][NextAttr]_vars

\* the attribute names the specification accepts in each context
SpecAttrNames(c) ==
    CASE c = "class" -> {STR_SourceFile, STR_InnerClasses,
                         STR_BootstrapMethods, STR_Record, STR_Signature}
      [] c = "method" -> {STR_Code, STR_MethodParameters, STR_Signature}
      [] c = "field" -> {STR_Signature}
      [] c = "code" -> {STR_LineNumberTable, STR_LocalVariableTable,
                        STR_StackMapTable}

\* the variant that carries each name
VariantName(kind) ==
    CASE kind = "SourceFile" -> STR_SourceFile
      [] kind = "InnerClasses" -> STR_InnerClasses
      [] kind = "BootstrapMethods" -> STR_BootstrapMethods
      [] kind = "Record" -> STR_Record
      [] kind = "Signature" -> STR_Signature
      [] kind = "Code" -> STR_Code
      [] kind = "MethodParameters" -> STR_MethodParameters
      [] kind = "LineNumberTable" -> STR_LineNumberTable
      [] kind = "LocalVariableTable" -> STR_LocalVariableTable
      [] kind = "StackMapTable" -> STR_StackMapTable
      [] OTHER -> <<>>

\* the input names a Utf8 entry and carries an all-zero payload long enough
\* for the empty form of every attribute
NamedAttrInput ==
    /\ Len(buf) >= 6 + 12
    /\ \A k \in 3..Len(buf) : buf[k] = 0
    /\ buf[1] = 0 /\ buf[2] \in 1..Len(AttrNames)

\* C7: in each context exactly the names the specification lists are decoded,
\* each into the variant of the same name; every other name fails.
C7_AttributeNamesByContext ==
    (pc \in {"attr_done", "panicked"} /\ ctx \in AttrContexts
        /\ NamedAttrInput) =>
        LET name == AttrNames[buf[2]]
        IN  IF name \in SpecAttrNames(ctx)
            THEN pc = "attr_done" /\ VariantName(result.kind) = name
            ELSE pc = "panicked"

----------------------------------------------------------------------------
(* The resolvers of ConstantPool, called on a well-formed pool in which    *)
(* one slot has been replaced by an arbitrary entry.                       *)

BasePool ==
    << [kind |-> "Utf8", bytes |-> <<97, 47, 66>>],
       [kind |-> "Utf8", bytes |-> <<40, 41, 86>>],
       [kind |-> "Class", a |-> 1],
       [kind |-> "NameAndType", a |-> 1, b |-> 2],
       [kind |-> "MethodRef", a |-> 3, b |-> 4],
       [kind |-> "InterfaceMethodRef", a |-> 3, b |-> 4],
       [kind |-> "FieldRef", a |-> 3, b |-> 4],
       [kind |-> "InvokeDynamic", a |-> 0, b |-> 4] >>

Utf8Payloads ==
    { <<>>, <<91, 73>>, <<60, 105, 110, 105, 116, 62>>, <<105, 116, 39, 115>>, <<10, 1>>, <<195, 169>>, <<192, 128>>,
      <<255>> }

ResolveEntries ==
    {[kind |-> "Utf8", bytes |-> bs] : bs \in Utf8Payloads}
    \cup {Null}
    \cup {[kind |-> k, a |-> x] :
            k \in {"Class", "String", "MethodType"}, x \in 0..MaxRef}
    \cup {[kind |-> k, a |-> x, b |-> y] :
            k \in {"NameAndType", "MethodRef", "InterfaceMethodRef",
                   "FieldRef", "InvokeDynamic"},
            x \in 0..MaxRef, y \in 0..MaxRef}

ResolvePools ==
    {BasePool}
    \cup {[BasePool EXCEPT ![k] = en] :
            k \in 1..Len(BasePool), en \in ResolveEntries}

Resolvers ==
    {"get_utf8_content", "get_class_name", "get_method_ref", "get_field_ref",
     "get_field_ref_name_and_type", "get_name_and_type",
     "get_invoke_dynamic"}

InitResolve ==
    /\ entries \in ResolvePools
    /\ i \in 0..MaxRef
    /\ ctx \in Resolvers
    /\ pc = "resolve"
    /\ result = <<>>
    /\ last = [op |-> "resolve", pool0 |-> entries]
    /\ diag = NoDiag
    /\ buf = <<>> /\ pos = 0 /\ endian = "Big"
    /\ debug_assertions \in BOOLEAN
    /\ cp_count = 0 /\ flags = 0 /\ ParkFile

Resolved(r) ==
    /\ pc' = IF r.res = "Ok" THEN "resolved" ELSE "panicked"
    /\ result' = r.val
    /\ diag' = r.diag
    /\ UNCHANGED <<buf, pos, endian, debug_assertions, last, cp_count, i,
                   entries, ctx, flags, cf>>

GetUtf8Content ==
    /\ pc = "resolve" /\ ctx = "get_utf8_content"
    /\ Resolved(get_utf8_content(entries, i))

GetClassName ==
    /\ pc = "resolve" /\ ctx = "get_class_name"
    /\ Resolved(get_class_name(entries, i))

GetMethodRef ==
    /\ pc = "resolve" /\ ctx = "get_method_ref"
    /\ Resolved(get_method_ref(entries, i))

GetFieldRef ==
    /\ pc = "resolve" /\ ctx = "get_field_ref"
    /\ Resolved(get_field_ref(entries, i))

GetFieldRefNameAndType ==
    /\ pc = "resolve" /\ ctx = "get_field_ref_name_and_type"
    /\ Resolved(get_field_ref_name_and_type(entries, i))

GetNameAndType ==
    /\ pc = "resolve" /\ ctx = "get_name_and_type"
    /\ Resolved(get_name_and_type(entries, i))

GetInvokeDynamic ==
    /\ pc = "resolve" /\ ctx = "get_invoke_dynamic"
    /\ Resolved(get_invoke_dynamic(entries, i))

NextResolve ==
    \/ GetUtf8Content \/ GetClassName \/ GetMethodRef \/ GetFieldRef
    \/ GetFieldRefNameAndType \/ GetNameAndType \/ GetInvokeDynamic

SpecResolve == InitResolve /\ [][NextResolve]_vars

\* the entry at 1-based index k exists and is of variant v
KindAt(k, v) == k \in 1..Len(entries) /\ entries[k].kind = v

Utf8At(k) == KindAt(k, "Utf8")
ClassAt(k) == KindAt(k, "Class") /\ Utf8At(entries[k].a)
NameAndTypeAt(k) ==
    KindAt(k, "NameAndType") /\ Utf8At(entries[k].a) /\ Utf8At(entries[k].b)
MemberAt(k, variants) ==
    /\ \E v \in variants : KindAt(k, v)
    /\ ClassAt(entries[k].a) /\ NameAndTypeAt(entries[k].b)

\* every entry the resolver reaches from index k is of the demanded variant
Demanded(resolver, k) ==
    CASE resolver = "get_utf8_content" -> Utf8At(k)
      [] resolver = "get_class_name" -> ClassAt(k)
      [] resolver = "get_name_and_type" -> NameAndTypeAt(k)
      [] resolver = "get_method_ref" ->
            MemberAt(k, {"MethodRef", "InterfaceMethodRef"})
      [] resolver = "get_field_ref" -> MemberAt(k, {"FieldRef"})
      [] resolver = "get_field_ref_name_and_type" ->
            KindAt(k, "FieldRef") /\ NameAndTypeAt(entries[k].b)
      [] resolver = "get_invoke_dynamic" ->
            KindAt(k, "InvokeDynamic") /\ NameAndTypeAt(entries[k].b)

\* every Utf8 payload of the pool is plain ASCII
AsciiPool ==
    \A k \in 1..Len(entries) :
        entries[k].kind = "Utf8" =>
            \A n \in 1..Len(entries[k].bytes) : entries[k].bytes[n] < 128

IsString(str) == \A n \in 1..Len(str) : str[n] \in 0..255

\* C11: a resolver fails when the entry it is given, or one it reaches, is
\* not of the variant it demands; get_method_ref accepts exactly MethodRef
\* and InterfaceMethodRef; on success the result is a string and the pool
\* is the pool the resolver was called on.
C11_ResolversDemandVariants ==
    (pc \in {"resolved", "panicked"} /\ ctx \in Resolvers) =>
        /\ ~Demanded(ctx, i) => pc = "panicked"
        /\ pc = "resolved" => IsString(result) /\ entries = last.pool0
        /\ (ctx = "get_method_ref" /\ i \in 1..Len(entries) /\ AsciiPool
              /\ {"a", "b"} \subseteq DOMAIN entries[i]
              /\ ClassAt(entries[i].a) /\ NameAndTypeAt(entries[i].b)) =>
              (pc = "resolved"
                 <=> entries[i].kind \in {"MethodRef", "InterfaceMethodRef"})

C11_Witness ==
    /\ pc = "resolved" /\ ctx = "get_method_ref"
    /\ entries[i].kind = "InterfaceMethodRef"
    /\ result = <<97, 47, 66, 46, 97, 47, 66, 58, 40, 41, 86>>

\* the escaping of one character
EscapedChar(c) ==
    CASE c = 10 -> <<92, 110>>
      [] c = 39 -> <<92, 39>>
      [] c = 1 -> <<92, 117, 48, 48, 48, 49>>
      [] OTHER -> <<c>>

Escaped(str) == Flatten([n \in 1..Len(str) |-> EscapedChar(str[n])])

Quoted(str) == <<34>> \o str \o <<34>>

IsSuffix(suffix, str) ==
    /\ Len(suffix) <= Len(str)
    /\ SubSeq(str, Len(str) - Len(suffix) + 1, Len(str)) = suffix

\* C12: get_utf8_content returns the escaped payload, in double quotes
\* exactly when the payload begins with '['; get_class_name returns that
\* quoted string for an array-class name and get_name_and_type ends with it
\* for an array descriptor.
C12_ArrayPayloadQuoted ==
    pc = "resolved" =>
        /\ ctx = "get_utf8_content" =>
             result = IF starts_with(entries[i].bytes, 91)
                      THEN Quoted(Escaped(entries[i].bytes))
                      ELSE Escaped(entries[i].bytes)
        /\ (ctx = "get_class_name"
              /\ starts_with(entries[entries[i].a].bytes, 91)) =>
             result = Quoted(Escaped(entries[entries[i].a].bytes))
        /\ (ctx = "get_name_and_type"
              /\ starts_with(entries[entries[i].b].bytes, 91)) =>
             IsSuffix(<<58>> \o Quoted(Escaped(entries[entries[i].b].bytes)),
                      result)

C12_Witness ==
    /\ pc = "resolved" /\ ctx = "get_name_and_type"
    /\ entries[entries[i].b].bytes = <<91, 73>>
    /\ result = <<97, 47, 66, 58, 34, 91, 73, 34>>

----------------------------------------------------------------------------
(* convert_utf8 applied to a payload, then to its own output.              *)

EscapeAlphabet == {10, 39, 92, 1, 97}

InitEscape ==
    /\ buf \in SeqsUpTo(EscapeAlphabet, MaxTextLen)
    /\ pc = "escape"
    /\ result = <<>>
    /\ last = NoLast
    /\ diag = NoDiag
    /\ pos = 0 /\ endian = "Big"
    /\ debug_assertions \in BOOLEAN
    /\ ctx = "none"
    /\ ParkPool /\ flags = 0 /\ ParkFile

\* convert_utf8(&payload)
ConvertUtf8 ==
    /\ pc = "escape"
    /\ pc' = IF convert_utf8(buf).res = "Ok" THEN "escaped" ELSE "panicked"
    /\ result' = convert_utf8(buf).val
    /\ diag' = convert_utf8(buf).diag
    /\ last' = [op |-> "convert", once |-> convert_utf8(buf).val]
    /\ UNCHANGED <<buf, pos, endian, debug_assertions, cp_count, i, entries,
                   ctx, flags, cf>>

\* convert_utf8(output.as_bytes())
ConvertUtf8Again ==
    /\ pc = "escaped"
    /\ pc' = IF convert_utf8(result).res = "Ok" THEN "escaped_twice"
             ELSE "panicked"
    /\ result' = convert_utf8(result).val
    /\ diag' = convert_utf8(result).diag
    /\ UNCHANGED <<buf, pos, endian, debug_assertions, last, cp_count, i,
                   entries, ctx, flags, cf>>

NextEscape == ConvertUtf8 \/ ConvertUtf8Again

SpecEscape == InitEscape /\ [][NextEscape]_vars

\* C13: escaping the escaped string gives the escaped string again.
C13_EscapeIdempotent ==
    pc = "escaped_twice" => result = last.once

----------------------------------------------------------------------------
(* classfile::descriptor: Type, Display, Reader, parse_type and the two    *)
(* descriptor parsers.  A Reader is the pair content, pos; results carry   *)
(* the reader's pos.                                                       *)

Void == [t |-> "Void"]
Primitive(name) == [t |-> name]
Array(inner) == [t |-> "Array", inner |-> inner]
Object(class_name) == [t |-> "Object", class_name |-> class_name]
Generic(class_name, types) ==
    [t |-> "Generic", class_name |-> class_name, types |-> types]

RECURSIVE join(_, _)
\* Vec<String>::join(sep)
join(strs, sep) ==
    IF strs = <<>> THEN <<>>
    ELSE IF Len(strs) = 1 THEN strs[1]
    ELSE strs[1] \o sep \o join(Tail(strs), sep)

RECURSIVE fmt_type(_)
\* impl Display for Type
fmt_type(ty) ==
    CASE ty.t = "Void" -> <<118, 111, 105, 100>>
      [] ty.t = "Boolean" -> <<98, 111, 111, 108, 101, 97, 110>>
      [] ty.t = "Char" -> <<99, 104, 97, 114>>
      [] ty.t = "Byte" -> <<98, 121, 116, 101>>
      [] ty.t = "Short" -> <<115, 104, 111, 114, 116>>
      [] ty.t = "Int" -> <<105, 110, 116>>
      [] ty.t = "Long" -> <<108, 111, 110, 103>>
      [] ty.t = "Float" -> <<102, 108, 111, 97, 116>>
      [] ty.t = "Double" -> <<100, 111, 117, 98, 108, 101>>
      [] ty.t = "Array" -> fmt_type(ty.inner) \o <<91, 93>>
      [] ty.t = "Object" -> ty.class_name
      [] ty.t = "Generic" ->
            ty.class_name \o <<60>>
            \o join([k \in 1..Len(ty.types) |-> fmt_type(ty.types[k])],
                    <<44, 32>>)
            \o <<62>>

\* impl Display for MethodDescriptor
fmt_method_descriptor(md) ==
    fmt_type(md.return_type) \o <<40>>
    \o join([k \in 1..Len(md.parameter_types) |->
                fmt_type(md.parameter_types[k])], <<44, 32>>)
    \o <<41>>

\* peek that reads a ';' past the end of the content
peek_past_end(content, p) ==
    IF p < Len(content) THEN Ok(p, content[p + 1]) ELSE Ok(p, 59)

\* self.content.chars().nth(self.pos).unwrap()
peek(content, p) ==
    IF p < Len(content) THEN Ok(p, content[p + 1])
    ELSE Panic(p, [kind |-> "UnwrapNone"])

\* the arms of parse_type that move by one and return a primitive
PrimitiveArm(ch) ==
    CASE ch = 86 -> "Void"
      [] ch = 90 -> "Boolean"
      [] ch = 67 -> "Char"
      [] ch = 66 -> "Byte"
      [] ch = 83 -> "Short"
      [] ch = 73 -> "Int"
      [] ch = 74 -> "Long"
      [] ch = 70 -> "Float"
      [] ch = 68 -> "Double"
      [] OTHER -> "none"

RECURSIVE read_class_name(_, _, _)
\* while (pos < content.len() - 1) && (peek() != ';' && peek() != '<')
read_class_name(content, p, str) ==
    IF p < Len(content) - 1 /\ content[p + 1] # 59 /\ content[p + 1] # 60
    THEN read_class_name(content, p + 1,
             str \o (IF content[p + 1] = 47 THEN <<46>>
                     ELSE <<content[p + 1]>>))
    ELSE Ok(p, str)

InvalidDescriptor(p, expected) ==
    Panic(p, [kind |-> "InvalidDescriptor", expected |-> expected])

RECURSIVE parse_type(_, _)
RECURSIVE parse_type_arguments(_, _, _)

\* while (pos < content.len()) && peek() != '>' { types.push(parse_type()) }
parse_type_arguments(content, p, types) ==
    IF p < Len(content) /\ content[p + 1] # 62
    THEN Then(parse_type(content, p), LAMBDA ty :
              parse_type_arguments(content, ty.pos, Append(types, ty.val)))
    ELSE Ok(p, types)

\* the rest of the 'L' arm after the name: ';' or the argument list
class_type(content, name) ==
    Then(peek(content, name.pos), LAMBDA ch :
        IF ch.val = 59 THEN Ok(name.pos + 1, Object(name.val))
        ELSE Then(parse_type_arguments(content, name.pos + 1, <<>>),
                  LAMBDA types :
             Then(peek(content, types.pos), LAMBDA gt :
                IF gt.val # 62 THEN InvalidDescriptor(types.pos, 62)
                ELSE Then(peek(content, types.pos + 1), LAMBDA semi :
                        IF semi.val # 59
                        THEN InvalidDescriptor(types.pos + 1, 59)
                        ELSE Ok(types.pos + 2,
                                Generic(name.val, types.val))))))

\* parse_type without the translation of '/' in class names
parse_type_slashes(content, p) ==
    Then(peek(content, p), LAMBDA ch :
        IF PrimitiveArm(ch.val) # "none"
        THEN Ok(p + 1, Primitive(PrimitiveArm(ch.val)))
        ELSE IF ch.val = 91
        THEN Then(parse_type(content, p + 1),
                  LAMBDA inner : Ok(inner.pos, Array(inner.val)))
        ELSE IF ch.val = 76
        THEN class_type(content,
                        Ok(read_class_name(content, p + 1, <<>>).pos,
                           SubSeq(content, p + 2,
                                  read_class_name(content, p + 1, <<>>).pos)))
        ELSE InvalidDescriptor(p, 0))

parse_type(content, p) ==
    Then(peek(content, p), LAMBDA ch :
        IF PrimitiveArm(ch.val) # "none"
        THEN Ok(p + 1, Primitive(PrimitiveArm(ch.val)))
        ELSE IF ch.val = 91
        THEN Then(parse_type(content, p + 1),
                  LAMBDA inner : Ok(inner.pos, Array(inner.val)))
        ELSE IF ch.val = 76
        THEN class_type(content, read_class_name(content, p + 1, <<>>))
        ELSE InvalidDescriptor(p, 0))

parse_field_descriptor(raw_descriptor) ==
    Then(parse_type(raw_descriptor, 0),
         LAMBDA ty : Ok(ty.pos, [field_type |-> ty.val]))

\* raw_descriptor.chars().filter(|c| *c == ch).count()
count_char(str, ch) == Cardinality({k \in 1..Len(str) : str[k] = ch})

\* raw_descriptor.split(')').next_back().unwrap()
last_segment(str, ch) ==
    LET at == {k \in 1..Len(str) : str[k] = ch}
    IN  IF at = {} THEN str
        ELSE SubSeq(str, (CHOOSE k \in at : \A m \in at : m <= k) + 1,
                    Len(str))

\* raw_descriptor.split(')').next().unwrap()
first_segment(str, ch) ==
    LET at == {k \in 1..Len(str) : str[k] = ch}
    IN  IF at = {} THEN str
        ELSE SubSeq(str, 1, (CHOOSE k \in at : \A m \in at : k <= m) - 1)

\* the debug_assert! of parse_method_descriptor
method_descriptor_shape(raw_descriptor) ==
    /\ starts_with(raw_descriptor, 40)
    /\ count_char(raw_descriptor, 40) = 1
    /\ count_char(raw_descriptor, 41) = 1
    /\ raw_descriptor[Len(raw_descriptor)] # 41

RECURSIVE parse_parameter_types(_, _, _)
\* while reader.pos < reader.content.len() { parameter_types.push(..) }
parse_parameter_types(content, p, types) ==
    IF p < Len(content)
    THEN Then(parse_type(content, p), LAMBDA ty :
              parse_parameter_types(content, ty.pos, Append(types, ty.val)))
    ELSE Ok(p, types)

\* split(')').next().unwrap()[1..]
parameters_string(raw_descriptor) ==
    IF first_segment(raw_descriptor, 41) = <<>>
    THEN Panic(0, [kind |-> "SliceOutOfRange"])
    ELSE Ok(0, Tail(first_segment(raw_descriptor, 41)))

\* parse_method_descriptor with the parameters pushed at the front
parse_method_descriptor_reversed(raw_descriptor, dbg) ==
    Then(parse_parameter_types(
             Tail(first_segment(raw_descriptor, 41)), 0, <<>>),
         LAMBDA ps :
            Ok(ps.pos,
               [return_type |->
                    parse_type(last_segment(raw_descriptor, 41), 0).val,
                parameter_types |->
                    [k \in 1..Len(ps.val) |->
                        ps.val[Len(ps.val) + 1 - k]]]))

parse_method_descriptor(raw_descriptor, dbg) ==
    IF raw_descriptor = <<>>
    THEN Panic(0, [kind |-> "EmptyMethodDescriptor"])
    ELSE IF dbg /\ ~method_descriptor_shape(raw_descriptor)
    THEN Panic(0, [kind |-> "InvalidMethodDescriptor"])
    ELSE Then(parse_type(last_segment(raw_descriptor, 41), 0),
              LAMBDA return_type :
         Then(parameters_string(raw_descriptor), LAMBDA content :
         Then(parse_parameter_types(content.val, 0, <<>>), LAMBDA ps :
              Ok(ps.pos, [return_type |-> return_type.val,
                          parameter_types |-> ps.val]))))

----------------------------------------------------------------------------
(* The descriptor parsers and the Display of their results, called on the  *)
(* descriptors of the grammar, each with the type it denotes and its Java  *)
(* rendering, and on arbitrary short strings.                              *)

VoidType == [s |-> <<86>>, ast |-> [t |-> "Void"], java |-> <<118, 111, 105, 100>>]

PrimitiveTypes ==
    { [s |-> <<90>>, ast |-> [t |-> "Boolean"], java |-> <<98, 111, 111, 108, 101, 97, 110>>],
      [s |-> <<67>>, ast |-> [t |-> "Char"], java |-> <<99, 104, 97, 114>>],
      [s |-> <<66>>, ast |-> [t |-> "Byte"], java |-> <<98, 121, 116, 101>>],
      [s |-> <<83>>, ast |-> [t |-> "Short"], java |-> <<115, 104, 111, 114, 116>>],
      [s |-> <<73>>, ast |-> [t |-> "Int"], java |-> <<105, 110, 116>>],
      [s |-> <<74>>, ast |-> [t |-> "Long"], java |-> <<108, 111, 110, 103>>],
      [s |-> <<70>>, ast |-> [t |-> "Float"], java |-> <<102, 108, 111, 97, 116>>],
      [s |-> <<68>>, ast |-> [t |-> "Double"], java |-> <<100, 111, 117, 98, 108, 101>>] }

ClassNames ==
    { [raw |-> <<97, 47, 66>>, dotted |-> <<97, 46, 66>>], [raw |-> <<120>>, dotted |-> <<120>>] }

ObjectTypes ==
    { [s |-> <<76>> \o c.raw \o <<59>>, ast |-> [t |-> "Object",
       class_name |-> c.dotted], java |-> c.dotted] : c \in ClassNames }

ArrayOf(ty) ==
    [s |-> <<91>> \o ty.s, ast |-> [t |-> "Array", inner |-> ty.ast],
     java |-> ty.java \o <<91, 93>>]

GenericOf1(c, ty) ==
    [s |-> <<76>> \o c.raw \o <<60>> \o ty.s \o <<62, 59>>,
     ast |-> [t |-> "Generic", class_name |-> c.dotted,
              types |-> <<ty.ast>>],
     java |-> c.dotted \o <<60>> \o ty.java \o <<62>>]

GenericOf2(c, ty, tz) ==
    [s |-> <<76>> \o c.raw \o <<60>> \o ty.s \o tz.s \o <<62, 59>>,
     ast |-> [t |-> "Generic", class_name |-> c.dotted,
              types |-> <<ty.ast, tz.ast>>],
     java |-> c.dotted \o <<60>> \o ty.java \o <<44, 32>> \o tz.java
              \o <<62>>]

SmallTypes == {ty \in PrimitiveTypes : ty.s = <<73>>} \cup ObjectTypes

RECURSIVE ValidTypes(_)
\* the types of the grammar nested at most n deep
ValidTypes(n) ==
    IF n = 0 THEN PrimitiveTypes \cup ObjectTypes
    ELSE PrimitiveTypes \cup ObjectTypes
         \cup {ArrayOf(ty) : ty \in ValidTypes(n - 1)}
         \cup {GenericOf1(c, ty) : c \in ClassNames, ty \in ValidTypes(n - 1)}
         \cup {GenericOf2(c, ty, tz) :
                 c \in {k \in ClassNames : k.raw = <<120>>},
                 ty \in SmallTypes, tz \in SmallTypes}

FieldDescriptors == {VoidType} \cup ValidTypes(MaxTypeDepth)

ParameterLists ==
    {<<>>} \cup {<<ty>> : ty \in ValidTypes(MaxTypeDepth - 1)}
    \cup {<<ty, tz>> : ty \in SmallTypes, tz \in SmallTypes}
    \cup {<<ty, tz, ArrayOf(ty)>> : ty \in ObjectTypes, tz \in PrimitiveTypes}

MethodDescriptors ==
    {[s |-> <<40>> \o Flatten([k \in 1..Len(ps) |-> ps[k].s]) \o <<41>>
            \o r.s,
      return_type |-> r.ast,
      parameter_types |-> [k \in 1..Len(ps) |-> ps[k].ast]] :
        ps \in ParameterLists,
        r \in {VoidType} \cup ValidTypes(MaxTypeDepth - 1)}

FieldAlphabet == {76, 91, 73, 97, 59, 60, 62, 81, 47, 93}
MethodAlphabet == {40, 41, 73, 76, 97, 59, 86}

InitDescriptor ==
    /\ \/ /\ ctx = "field"
          /\ \/ \E ty \in FieldDescriptors :
                  /\ buf = ty.s
                  /\ last = [op |-> "descriptor", known |-> TRUE,
                             ast |-> ty.ast, java |-> ty.java]
             \/ /\ buf \in SeqsUpTo(FieldAlphabet, MaxDescLen)
                /\ last = [op |-> "descriptor", known |-> FALSE]
       \/ /\ ctx = "method"
          /\ \/ \E md \in MethodDescriptors :
                  /\ buf = md.s
                  /\ last = [op |-> "descriptor", known |-> TRUE,
                             return_type |-> md.return_type,
                             parameter_types |-> md.parameter_types]
             \/ /\ buf \in SeqsUpTo(MethodAlphabet, MaxDescLen)
                /\ last = [op |-> "descriptor", known |-> FALSE]
    /\ pos = 0
    /\ pc = "descriptor"
    /\ result = <<>>
    /\ diag = NoDiag
    /\ endian = "Big"
    /\ debug_assertions \in BOOLEAN
    /\ ParkPool /\ flags = 0 /\ ParkFile

ParseFieldDescriptor ==
    /\ pc = "descriptor" /\ ctx = "field"
    /\ pc' = IF parse_field_descriptor(buf).res = "Ok" THEN "parsed"
             ELSE "panicked"
    /\ pos' = parse_field_descriptor(buf).pos
    /\ result' = parse_field_descriptor(buf).val
    /\ diag' = parse_field_descriptor(buf).diag
    /\ UNCHANGED <<buf, endian, debug_assertions, last, cp_count, i,
                   entries, ctx, flags, cf>>

ParseMethodDescriptor ==
    /\ pc = "descriptor" /\ ctx = "method"
    /\ pc' = IF parse_method_descriptor(buf, debug_assertions).res = "Ok"
             THEN "parsed" ELSE "panicked"
    /\ pos' = parse_method_descriptor(buf, debug_assertions).pos
    /\ result' = parse_method_descriptor(buf, debug_assertions).val
    /\ diag' = parse_method_descriptor(buf, debug_assertions).diag
    /\ UNCHANGED <<buf, endian, debug_assertions, last, cp_count, i,
                   entries, ctx, flags, cf>>

\* format!("{}", field_descriptor)
DisplayFieldDescriptor ==
    /\ pc = "parsed" /\ ctx = "field"
    /\ pc' = "printed"
    /\ result' = [field_type |-> result.field_type,
                  text |-> fmt_type(result.field_type)]
    /\ UNCHANGED <<buf, pos, endian, debug_assertions, last, cp_count, i,
                   entries, diag, ctx, flags, cf>>

\* format!("{}", method_descriptor)
DisplayMethodDescriptor ==
    /\ pc = "parsed" /\ ctx = "method"
    /\ pc' = "printed"
    /\ result' = [return_type |-> result.return_type,
                  parameter_types |-> result.parameter_types,
                  text |-> fmt_method_descriptor(result)]
    /\ UNCHANGED <<buf, pos, endian, debug_assertions, last, cp_count, i,
                   entries, diag, ctx, flags, cf>>

NextDescriptor ==
    \/ ParseFieldDescriptor \/ ParseMethodDescriptor
    \/ DisplayFieldDescriptor \/ DisplayMethodDescriptor

SpecDescriptor == InitDescriptor /\ [][NextDescriptor]_vars

\* C14: a valid field descriptor parses into the type it denotes, with '/'
\* turned into '.', the reader ends right after the type, and the parsed
\* type prints as its Java rendering.
C14_FieldDescriptorRoundTrip ==
    (ctx = "field" /\ last.op = "descriptor" /\ last.known
        /\ pc # "descriptor") =>
        /\ pc \in {"parsed", "printed"}
        /\ result.field_type = last.ast
        /\ pos = Len(buf)
        /\ pc = "printed" => result.text = last.java

C14_Witness ==
    /\ ctx = "field" /\ pc = "printed"
    /\ buf = <<76, 120, 60, 73, 76, 97, 47, 66, 59, 62, 59>>
    /\ result.text = <<120, 60, 105, 110, 116, 44, 32, 97, 46, 66, 62>>

\* C15: a valid method descriptor parses into the type after ')' as return
\* type and the types between the parentheses, in order, as parameters.
C15_MethodDescriptorParts ==
    (ctx = "method" /\ last.op = "descriptor" /\ last.known
        /\ pc # "descriptor") =>
        /\ pc \in {"parsed", "printed"}
        /\ result.return_type = last.return_type
        /\ result.parameter_types = last.parameter_types

C15_Witness ==
    /\ ctx = "method" /\ pc = "parsed"
    /\ buf = <<40, 76, 97, 47, 66, 59, 74, 91, 76, 97, 47, 66, 59, 41, 86>>
    /\ result.parameter_types =
         << [t |-> "Object", class_name |-> <<97, 46, 66>>], [t |-> "Long"],
            [t |-> "Array", inner |-> [t |-> "Object",
                                       class_name |-> <<97, 46, 66>>]] >>
    /\ result.return_type = [t |-> "Void"]

PrimitiveLetters == {86, 90, 67, 66, 83, 73, 74, 70, 68}

RECURSIVE TypeEnd(_, _)
RECURSIVE ArgumentsEnd(_, _)

\* the offset just after the type that starts at offset p of str, or -1 when
\* no type starts there: a letter outside V Z C B S I J F D [ L, the end of
\* the input, or an 'L' not closed by ';' or by '<' arguments '>;'
TypeEnd(str, p) ==
    IF p >= Len(str) THEN -1
    ELSE IF str[p + 1] \in PrimitiveLetters THEN p + 1
    ELSE IF str[p + 1] = 91 THEN TypeEnd(str, p + 1)
    ELSE IF str[p + 1] = 76
    THEN LET stops == {k \in (p + 2)..Len(str) : str[k] \in {59, 60}}
             first == CHOOSE k \in stops : \A m \in stops : k <= m
         IN  IF stops = {} THEN -1
             ELSE IF str[first] = 59 THEN first
             ELSE ArgumentsEnd(str, first)
    ELSE -1

ArgumentsEnd(str, p) ==
    IF p >= Len(str) THEN -1
    ELSE IF str[p + 1] = 62
    THEN IF p + 1 < Len(str) /\ str[p + 2] = 59 THEN p + 2 ELSE -1
    ELSE IF TypeEnd(str, p) = -1 THEN -1
    ELSE ArgumentsEnd(str, TypeEnd(str, p))

\* C16: a string that does not start with a type of the grammar makes the
\* field descriptor parser fail; it returns no Type.
C16_InvalidDescriptorFails ==
    (ctx = "field" /\ pc # "descriptor" /\ TypeEnd(buf, 0) = -1) =>
        pc = "panicked"

C16_Witness ==
    /\ ctx = "field" /\ pc = "panicked" /\ buf = <<91, 93>>
    /\ diag.kind = "InvalidDescriptor"

----------------------------------------------------------------------------
(* javap: the comment column of an instruction that names a field or a     *)
(* method of the constant pool.                                            *)

STR_Field == <<70, 105, 101, 108, 100, 32>>
STR_Method == <<77, 101, 116, 104, 111, 100>>
STR_InterfaceMethod == <<73, 110, 116, 101, 114, 102, 97, 99, 101, 77, 101, 116, 104, 111, 100>>

get_method_type(cpe) ==
    IF cpe.kind = "MethodRef" THEN Ok(0, STR_Method)
    ELSE IF cpe.kind = "InterfaceMethodRef" THEN Ok(0, STR_InterfaceMethod)
    ELSE Panic(0, [kind |-> "Unreachable"])

\* the GetStatic, PutStatic, GetField and PutField arms, which are the same
field_comment(cp, this_class, field_ref_index) ==
    Then(cp_entry(cp, field_ref_index), LAMBDA e :
        IF e.val.kind # "FieldRef" THEN Panic(0, [kind |-> "Unreachable"])
        ELSE Then(IF e.val.a = this_class
                  THEN get_name_and_type(cp, e.val.b)
                  ELSE get_field_ref(cp, field_ref_index),
                  LAMBDA str : Ok(0, STR_Field \o str.val)))

invoke_special_comment(cp, this_class, method_ref_index) ==
    Then(cp_entry(cp, method_ref_index), LAMBDA e :
        IF e.val.kind # "MethodRef" THEN Panic(0, [kind |-> "Unreachable"])
        ELSE Then(IF e.val.a = this_class
                  THEN get_name_and_type(cp, e.val.b)
                  ELSE get_method_ref(cp, method_ref_index),
                  LAMBDA str : Ok(0, STR_Method \o <<32>> \o str.val)))

invoke_static_comment(cp, this_class, method_ref_index) ==
    Then(cp_entry(cp, method_ref_index), LAMBDA method_entry :
    Then(get_method_type(method_entry.val), LAMBDA method_type :
    Then(IF method_entry.val.a = this_class
         THEN get_name_and_type(cp, method_entry.val.b)
         ELSE get_method_ref(cp, method_ref_index),
         LAMBDA str : Ok(0, method_type.val \o <<32>> \o str.val))))

invoke_virtual_comment(cp, method_ref_index) ==
    Then(get_method_ref(cp, method_ref_index), LAMBDA str :
        Ok(0, STR_Method \o <<32>> \o str.val))

invoke_interface_comment(cp, constant_pool_index) ==
    Then(cp_entry(cp, constant_pool_index), LAMBDA e :
    Then(get_method_type(e.val), LAMBDA method_type :
    Then(get_method_ref(cp, constant_pool_index), LAMBDA str :
        Ok(0, method_type.val \o <<32>> \o str.val))))

FieldInstructions == {"GetStatic", "PutStatic", "GetField", "PutField"}

get_comment(cp, this_class, instruction) ==
    IF instruction.op \in FieldInstructions
    THEN field_comment(cp, this_class, instruction.index)
    ELSE IF instruction.op = "InvokeSpecial"
    THEN invoke_special_comment(cp, this_class, instruction.index)
    ELSE IF instruction.op = "InvokeStatic"
    THEN invoke_static_comment(cp, this_class, instruction.index)
    ELSE IF instruction.op = "InvokeVirtual"
    THEN invoke_virtual_comment(cp, instruction.index)
    ELSE invoke_interface_comment(cp, instruction.index)

\* a pool with two classes, a member name and a descriptor, and a field, a
\* method and an interface method of each class
CommentPool(member_name) ==
    << [kind |-> "Utf8", bytes |-> <<97, 47, 66>>],
       [kind |-> "Utf8", bytes |-> <<120, 47, 89>>],
       [kind |-> "Class", a |-> 1],
       [kind |-> "Class", a |-> 2],
       [kind |-> "Utf8", bytes |-> member_name],
       [kind |-> "Utf8", bytes |-> <<40, 41, 86>>],
       [kind |-> "NameAndType", a |-> 5, b |-> 6],
       [kind |-> "MethodRef", a |-> 3, b |-> 7],
       [kind |-> "MethodRef", a |-> 4, b |-> 7],
       [kind |-> "InterfaceMethodRef", a |-> 3, b |-> 7],
       [kind |-> "InterfaceMethodRef", a |-> 4, b |-> 7],
       [kind |-> "FieldRef", a |-> 3, b |-> 7],
       [kind |-> "FieldRef", a |-> 4, b |-> 7] >>

MemberNames == { <<109>>, <<60, 105, 110, 105, 116, 62>> }

CommentInstructions ==
    FieldInstructions \cup {"InvokeSpecial", "InvokeStatic", "InvokeVirtual",
                            "InvokeInterface"}

InitComment ==
    /\ \E member_name \in MemberNames : entries = CommentPool(member_name)
    /\ cf \in [this_class : {3, 4}]
    /\ ctx \in CommentInstructions
    /\ i \in 0..(Len(entries) + 1)
    /\ pc = "comment"
    /\ result = <<>>
    /\ last = NoLast
    /\ diag = NoDiag
    /\ buf = <<>> /\ pos = 0 /\ endian = "Big"
    /\ debug_assertions \in BOOLEAN
    /\ cp_count = 0 /\ flags = 0

GetComment ==
    /\ pc = "comment"
    /\ pc' = IF get_comment(entries, cf.this_class,
                            [op |-> ctx, index |-> i]).res = "Ok"
             THEN "commented" ELSE "panicked"
    /\ result' = get_comment(entries, cf.this_class,
                             [op |-> ctx, index |-> i]).val
    /\ diag' = get_comment(entries, cf.this_class,
                           [op |-> ctx, index |-> i]).diag
    /\ UNCHANGED <<buf, pos, endian, debug_assertions, last, cp_count, i,
                   entries, ctx, flags, cf>>

NextComment == GetComment

SpecComment == InitComment /\ [][NextComment]_vars

RECURSIVE AfterSpace(_)
\* what follows the first space of str
AfterSpace(str) ==
    IF str = <<>> THEN <<>>
    ELSE IF Head(str) = 32 THEN Tail(str)
    ELSE AfterSpace(Tail(str))

\* C17: the comment of a field or method instruction is name:descriptor
\* when the entry's class_index is this_class, and
\* ClassName.name:descriptor when it is not.
C17_CommentAbbreviated ==
    pc = "commented" =>
        AfterSpace(result) =
            IF entries[i].a = cf.this_class
            THEN get_name_and_type(entries, entries[i].b).val
            ELSE get_class_name(entries, entries[i].a).val \o <<46>>
                 \o get_name_and_type(entries, entries[i].b).val

----------------------------------------------------------------------------
(* javap: the "Constant pool:" section.  A printed line is kept as the     *)
(* fields its template is filled with; the padding of the columns, which   *)
(* depends on the number of digits of cp.len() only, is left out.          *)

\* str.trim().is_empty()
trim_is_empty(str) == \A k \in 1..Len(str) : str[k] \in {9, 11, 12, 13, 32}

java_repr(ref_kind) ==
    CASE ref_kind = "GetField" -> "REF_getField"
      [] ref_kind = "GetStatic" -> "REF_GetStatic"
      [] ref_kind = "PutField" -> "REF_PutField"
      [] ref_kind = "PutStatic" -> "REF_PutStatic"
      [] ref_kind = "InvokeVirtual" -> "REF_invokeVirtual"
      [] ref_kind = "InvokeStatic" -> "REF_invokeStatic"
      [] ref_kind = "InvokeSpecial" -> "REF_InvokeSpecial"
      [] ref_kind = "NewInvokeSpecial" -> "REF_NewInvokeSpecial"
      [] ref_kind = "InvokeInterface" -> "REF_InvokeInterface"

\* the referenced UTF-8, double-quoted if it begins with '['
get_wrapped_utf8_content(es, cp_index) == get_utf8_content(es, cp_index)

\* println!("{:<comment_index$}// {}", format!(.. " = Tag", "#i+1", info), c)
println(n, tag, info, comment) ==
    [label |-> n, tag |-> tag, info |-> info, comment |-> comment,
     newline |-> TRUE]

\* the line of one entry, or the panic of the call that fills its comment
print_entry(cp, n, e) ==
    CASE e.kind = "Utf8" ->
            Then(convert_utf8(e.bytes), LAMBDA content :
                Ok(0, println(n, "Utf8",
                              IF trim_is_empty(content.val) THEN <<>>
                              ELSE content.val, <<>>)))
      [] e.kind = "Long" -> Ok(0, println(n, "Long", <<e.a, e.b>>, <<>>))
      [] e.kind = "Double" ->
            Ok(0, [label |-> 0, tag |-> "Double", info |-> <<>>,
                   comment |-> <<>>, newline |-> FALSE])
      [] e.kind = "String" ->
            Then(get_utf8_content(cp, e.a), LAMBDA string_content :
                Ok(0, println(n, "String", <<e.a>>,
                              IF trim_is_empty(string_content.val) THEN <<>>
                              ELSE string_content.val)))
      [] e.kind = "Class" ->
            Then(get_wrapped_utf8_content(cp, e.a), LAMBDA str :
                Ok(0, println(n, "Class", <<e.a>>, str.val)))
      [] e.kind = "FieldRef" ->
            Then(get_field_ref_string(cp, e.a, e.b), LAMBDA str :
                Ok(0, println(n, "Fieldref", <<e.a, e.b>>, str.val)))
      [] e.kind = "MethodRef" ->
            Then(get_method_ref_string(cp, e.a, e.b), LAMBDA str :
                Ok(0, println(n, "Methodref", <<e.a, e.b>>, str.val)))
      [] e.kind = "InterfaceMethodRef" ->
            Then(get_method_ref_string(cp, e.a, e.b), LAMBDA str :
                Ok(0, println(n, "InterfaceMethodref", <<e.a, e.b>>,
                              str.val)))
      [] e.kind = "NameAndType" ->
            Then(get_name_and_type_string(cp, e.a, e.b), LAMBDA str :
                Ok(0, println(n, "NameAndType", <<e.a, e.b>>, str.val)))
      [] e.kind = "MethodType" ->
            Then(get_utf8_content(cp, e.a), LAMBDA str :
                Ok(0, println(n, "MethodType", <<e.a>>, str.val)))
      [] e.kind = "MethodHandle" ->
            Then(get_method_ref(cp, e.b), LAMBDA str :
                Ok(0, println(n, "MethodHandle", <<e.a, e.b>>,
                              <<java_repr(e.a)>> \o str.val)))
      [] e.kind = "InvokeDynamic" ->
            Then(get_invoke_dynamic_string(cp, e.a, e.b), LAMBDA str :
                Ok(0, println(n, "InvokeDynamic", <<e.a, e.b>>, str.val)))
      [] e.kind = "Null" ->
            Panic(0, [kind |-> "UnreachableNull", index |-> n])

\* if i > 1 && matches!(cp[i - 1], Long | Double) { continue; }
skips_entry(cp, k) == k > 1 /\ cp[k].kind \in {"Long", "Double"}

RECURSIVE print_entries(_, _, _)
\* for i in 0..cp.len(): k is i, out holds what was printed so far; a panic
\* keeps in val what reached the terminal before it
print_entries(cp, k, out) ==
    IF k >= Len(cp) THEN Ok(k, out)
    ELSE IF skips_entry(cp, k) THEN print_entries(cp, k + 1, out)
    ELSE IF print_entry(cp, k + 1, cp[k + 1]).res # "Ok"
    THEN [print_entry(cp, k + 1, cp[k + 1]) EXCEPT !.pos = k, !.val = out]
    ELSE print_entries(cp, k + 1,
                       Append(out, print_entry(cp, k + 1, cp[k + 1]).val))

print_constant_pool(cp) == print_entries(cp, 0, <<>>)

\* the constants a pool is made of; a Long comes with its sentinel, as
\* parse_constant_pool pushes it
PoolItems ==
    {"Utf8", "Blank", "Long", "String", "Class", "NameAndType", "Fieldref",
     "Methodref", "MethodType", "MethodHandle", "InvokeDynamic"}

PoolItem(name) ==
    CASE name = "Utf8" -> << [kind |-> "Utf8", bytes |-> <<109>>] >>
      [] name = "Blank" -> << [kind |-> "Utf8", bytes |-> <<32>>] >>
      [] name = "Long" ->
            << [kind |-> "Long", a |-> <<0, 1>>, b |-> <<0, 2>>], Null >>
      [] name = "String" -> << [kind |-> "String", a |-> 1] >>
      [] name = "Class" -> << [kind |-> "Class", a |-> 1] >>
      [] name = "NameAndType" ->
            << [kind |-> "NameAndType", a |-> 1, b |-> 1] >>
      [] name = "Fieldref" -> << [kind |-> "FieldRef", a |-> 2, b |-> 3] >>
      [] name = "Methodref" -> << [kind |-> "MethodRef", a |-> 2, b |-> 3] >>
      [] name = "MethodType" -> << [kind |-> "MethodType", a |-> 1] >>
      [] name = "MethodHandle" ->
            << [kind |-> "MethodHandle", a |-> "InvokeStatic", b |-> 4] >>
      [] name = "InvokeDynamic" ->
            << [kind |-> "InvokeDynamic", a |-> 0, b |-> 3] >>

InitPrintPool ==
    /\ \E names \in SeqsUpTo(PoolItems, MaxPoolItems) :
          /\ entries = Flatten([k \in 1..Len(names) |-> PoolItem(names[k])])
          /\ last = [op |-> "print_constant_pool", names |-> names]
    /\ pc = "print_pool"
    /\ result = <<>>
    /\ diag = NoDiag
    /\ buf = <<>> /\ pos = 0 /\ endian = "Big"
    /\ debug_assertions \in BOOLEAN
    /\ cp_count = 0 /\ i = 0 /\ ParkFlags /\ ParkFile

PrintConstantPool ==
    /\ pc = "print_pool"
    /\ pc' = IF print_constant_pool(entries).res = "Ok" THEN "printed_pool"
             ELSE "panicked"
    /\ i' = print_constant_pool(entries).pos
    /\ result' = print_constant_pool(entries).val
    /\ diag' = print_constant_pool(entries).diag
    /\ UNCHANGED <<buf, pos, endian, debug_assertions, last, cp_count,
                   entries, ctx, flags, cf>>

NextPrintPool == PrintConstantPool

SpecPrintPool == InitPrintPool /\ [][NextPrintPool]_vars

RECURSIVE NonSentinelLabels(_, _)
\* the 1-based indices of the entries of es from k on that are not Null
NonSentinelLabels(es, k) ==
    IF k > Len(es) THEN <<>>
    ELSE IF es[k].kind = "Null" THEN NonSentinelLabels(es, k + 1)
    ELSE <<k>> \o NonSentinelLabels(es, k + 1)

\* C18: the printer does not fail on the Null slot that follows a Long,
\* wherever the Long sits, and a finished print holds one line per other
\* entry, labelled with the 1-based indices in ascending order.
C18_SentinelSkipped ==
    /\ pc = "panicked" /\ last.op = "print_constant_pool" =>
          diag.kind # "UnreachableNull"
    /\ pc = "printed_pool" =>
          /\ [k \in 1..Len(result) |-> result[k].label]
                = NonSentinelLabels(entries, 1)
          /\ \A k \in 1..Len(result) : result[k].newline

----------------------------------------------------------------------------
(* parse_bytecode on truncated code.                                       *)

\* the first multiple of 4 at or after p
Aligned(p) == p + ((4 - (p % 4)) % 4)

\* the i32 held in the four bytes of buf at offset p
HeaderWord(p) == i32_from_be_bytes(SubSeq(buf, p + 1, p + 4))

\* the bytes the instruction decoded last requires extend past the end of
\* the code; for a switch: the padding after the opcode, the header, and
\* the table whose size the header gives
Truncated ==
    LET q == Aligned(last.pos0 + 1)
        room == Len(buf) - q
    IN  IF last.opcode = 170
        THEN \/ room < 12
             \/ /\ table_count(HeaderWord(q + 4), HeaderWord(q + 8)) >= 0
                /\ table_count(HeaderWord(q + 4), HeaderWord(q + 8))
                      > (room - 12) \div 4
        ELSE IF last.opcode = 171
        THEN \/ room < 8
             \/ /\ HeaderWord(q + 4) >= 0
                /\ HeaderWord(q + 4) > (room - 8) \div 8
        ELSE last.pos0 + 1 + OperandBytes(last.opcode) > Len(buf)

\* C19: when the bytes an instruction of the decoder's table requires
\* extend past the end of the code, parse_bytecode fails: the instruction
\* is not decoded and no map is returned.
C19_TruncatedIsFatal ==
    (last.op = "bc_insn" /\ last.opcode \in DecoderOpcodes /\ Truncated) =>
        /\ last.res = "Panic"
        /\ pc = "panicked"

\* code for the termination check: up to three aconst_null, then bipush, a
\* switch, return, invokedynamic or an unknown opcode, then operand bytes
TerminationInputs ==
    {Repeat(1, k) \o <<op>> \o Repeat(f, n) :
        k \in 0..3, op \in {16, 170, 171, 177, 186, 202}, f \in {0, 1},
        n \in 0..MaxTailBytes}

InitTermination ==
    /\ buf \in TerminationInputs
    /\ pos = 0
    /\ endian = "Big"
    /\ debug_assertions \in BOOLEAN
    /\ pc = "bc"
    /\ result = <<>>
    /\ last = NoLast
    /\ diag = NoDiag
    /\ ParkPool /\ ParkFlags /\ ParkFile

\* parse_bytecode runs on: an enabled step of the decoder is taken
SpecBytecodeLive ==
    InitTermination /\ [][NextBytecode]_vars /\ WF_vars(NextBytecode)

\* C20: on every code byte sequence parse_bytecode eventually returns the
\* instruction map or fails.  (In pc = "hung" the padding loop
\* iterates without changing the reader, which shows as stuttering.)
C20_ParseBytecodeTerminates == <>(pc \in {"bc_done", "panicked"})

----------------------------------------------------------------------------
(* The keys of the instruction map.                                        *)

\* the bytes of the instruction whose opcode is at offset p of buf: opcode,
\* padding and operands
InstructionLength(p) ==
    IF buf[p + 1] = 170
    THEN (Aligned(p + 1) - p) + 12
         + 4 * table_count(HeaderWord(Aligned(p + 1) + 4),
                           HeaderWord(Aligned(p + 1) + 8))
    ELSE IF buf[p + 1] = 171
    THEN (Aligned(p + 1) - p) + 8 + 8 * HeaderWord(Aligned(p + 1) + 4)
    ELSE 1 + OperandBytes(buf[p + 1])

\* C21: the keys of the instruction map are the offsets at which an opcode
\* was read: the first is 0, each later one is the previous one plus the
\* length of the previous instruction, and each is below code_length.
C21_KeysAreOpcodeOffsets ==
    /\ (last.op = "bc_insn" /\ last.res = "Ok") =>
          result[Len(result)][1] = last.pos0
    /\ pc \in {"bc", "bc_done"} =>
          /\ result # <<>> => result[1][1] = 0
          /\ \A k \in 1..Len(result) : result[k][1] < Len(buf)
          /\ \A k \in 1..(Len(result) - 1) :
                /\ result[k][1] < result[k + 1][1]
                /\ result[k + 1][1]
                      = result[k][1] + InstructionLength(result[k][1])
    /\ pc = "bc_done" => (result = <<>> <=> buf = <<>>)

C21_Witness ==
    /\ pc = "bc_done"
    /\ buf = <<1, 1, 1, 170>> \o Repeat(1, 19)
    /\ [k \in 1..Len(result) |-> result[k][1]] = <<0, 1, 2, 3, 20, 21, 22>>

----------------------------------------------------------------------------
(* parse_bytecode on switches: up to three aconst_null, a tableswitch or a *)
(* lookupswitch, up to three zero bytes, then 32-bit words.                *)

SwitchWords == { <<0, 0, 0, 0>>, <<0, 0, 0, 2>>, <<255, 255, 255, 255>> }

SwitchInputs ==
    {Repeat(1, k) \o <<op>> \o Repeat(0, c) \o Flatten(ws) :
        k \in 0..3, op \in {170, 171}, c \in 0..3,
        ws \in SeqsUpTo(SwitchWords, MaxWords)}

InitSwitch ==
    /\ buf \in SwitchInputs
    /\ pos = 0
    /\ endian = "Big"
    /\ debug_assertions \in BOOLEAN
    /\ pc = "bc"
    /\ result = <<>>
    /\ last = NoLast
    /\ diag = NoDiag
    /\ ParkPool /\ ParkFlags /\ ParkFile

SpecSwitch == InitSwitch /\ [][NextBytecode]_vars

\* a switch was decoded by the last step
SwitchDecoded ==
    last.op = "bc_insn" /\ last.opcode \in {170, 171} /\ last.res = "Ok"

\* the instruction decoded by the last step
LastInsn == result[Len(result)][2]

\* the bytes of the header and the table of the switch decoded last
SwitchPayload ==
    IF last.opcode = 170 THEN 12 + 4 * Len(LastInsn.args[3])
    ELSE 8 + 8 * Len(LastInsn.args[2])

\* the bytes consumed between the opcode and the `default` field
PaddingConsumed == pos - (last.pos0 + 1) - SwitchPayload

\* C22: a switch decoded at opcode offset p skipped (4 - (p + 1) mod 4)
\* mod 4 padding bytes, so `default` is read at a multiple of 4 and the
\* header ends at a multiple of 4.
C22_SwitchPadding ==
    SwitchDecoded =>
        /\ PaddingConsumed = (4 - ((last.pos0 + 1) % 4)) % 4
        /\ PaddingConsumed \in 0..3
        /\ (last.pos0 + 1 + PaddingConsumed) % 4 = 0
        /\ LastInsn.args[1] = HeaderWord(last.pos0 + 1 + PaddingConsumed)
        /\ (last.pos0 + 1 + PaddingConsumed
               + (IF last.opcode = 170 THEN 12 ELSE 8)) % 4 = 0

C22_Witness ==
    /\ SwitchDecoded /\ last.opcode = 170 /\ last.pos0 = 1
    /\ PaddingConsumed = 2
    /\ LastInsn.args = <<-1, 0, <<2, 0, -1>>>>

\* the (match, offset) pairs held in buf from offset p on
RECURSIVE PairsAt(_, _)
PairsAt(p, n) ==
    IF n = 0 THEN <<>>
    ELSE <<[match_value |-> HeaderWord(p), offset |-> HeaderWord(p + 4)]>>
         \o PairsAt(p + 8, n - 1)

\* C23 as stated: a lookupswitch at offset 3 consumes one padding byte,
\* the one at offset 4, and reads `default` and `npairs` after it.
C23_OnePaddingByteAtOffset3 ==
    (SwitchDecoded /\ last.opcode = 171 /\ last.pos0 = 3) =>
        /\ PaddingConsumed = 1
        /\ LastInsn.args[1] = HeaderWord(5)
        /\ Len(LastInsn.args[2]) = HeaderWord(9)

\* C23 amended: a lookupswitch at offset 3 consumes no padding byte;
\* `default` and `npairs` are the signed big-endian words at offsets 4 and
\* 8, followed by npairs (match, offset) pairs.  One padding byte is
\* consumed when the opcode is at offset 2.
C23_NoPaddingAtOffset3 ==
    /\ (SwitchDecoded /\ last.opcode = 171 /\ last.pos0 = 3) =>
          /\ PaddingConsumed = 0
          /\ LastInsn.args[1] = HeaderWord(4)
          /\ Len(LastInsn.args[2]) = HeaderWord(8)
          /\ LastInsn.args[2] = PairsAt(12, HeaderWord(8))
          /\ pos = 12 + 8 * HeaderWord(8)
    /\ (SwitchDecoded /\ last.opcode = 171 /\ last.pos0 = 2) =>
          /\ PaddingConsumed = 1
          /\ LastInsn.args[1] = HeaderWord(4)
          /\ LastInsn.args[2] = PairsAt(12, HeaderWord(8))

C23_Witness ==
    /\ SwitchDecoded /\ last.opcode = 171 /\ last.pos0 = 3
    /\ LastInsn.args =
          <<-1, <<[match_value |-> 0, offset |-> 2],
                  [match_value |-> -1, offset |-> 0]>>>>
    /\ pos = 28

----------------------------------------------------------------------------
(* javap: the instruction column of branch instructions.                   *)

\* position.checked_add / checked_sub with expect("Negative final position")
add_offset(at, offset) ==
    IF offset >= 0 THEN Ok(0, at + offset)
    ELSE IF at >= -offset THEN Ok(0, at - (-offset))
    ELSE Panic(0, [kind |-> "NegativeFinalPosition"])

\* the mnemonic of a branch arm, padded to the operand column
branch_mnemonic(name) ==
    CASE name = "IfIcmpEq" -> <<105, 102, 95, 105, 99, 109, 112, 101, 113, 32, 32, 32, 32, 32>>
      [] name = "IfIcmpNe" -> <<105, 102, 95, 105, 99, 109, 112, 110, 101, 32, 32, 32, 32, 32>>
      [] name = "IfIcmpLt" -> <<105, 102, 95, 105, 99, 109, 112, 108, 116, 32, 32, 32, 32, 32>>
      [] name = "IfIcmpGe" -> <<105, 102, 95, 105, 99, 109, 112, 103, 101, 32, 32, 32, 32, 32>>
      [] name = "IfIcmpGt" -> <<105, 102, 95, 105, 99, 109, 112, 103, 116, 32, 32, 32, 32, 32>>
      [] name = "IfIcmpLe" -> <<105, 102, 95, 105, 99, 109, 112, 108, 101, 32, 32, 32, 32, 32>>
      [] name = "IfEq" -> <<105, 102, 101, 113, 32, 32, 32, 32, 32, 32, 32, 32, 32, 32>>
      [] name = "IfNe" -> <<105, 102, 110, 101, 32, 32, 32, 32, 32, 32, 32, 32, 32, 32>>
      [] name = "IfLt" -> <<105, 102, 108, 116, 32, 32, 32, 32, 32, 32, 32, 32, 32, 32>>
      [] name = "IfGe" -> <<105, 102, 103, 101, 32, 32, 32, 32, 32, 32, 32, 32, 32, 32>>
      [] name = "IfGt" -> <<105, 102, 103, 116, 32, 32, 32, 32, 32, 32, 32, 32, 32, 32>>
      [] name = "IfLe" -> <<105, 102, 108, 101, 32, 32, 32, 32, 32, 32, 32, 32, 32, 32>>
      [] name = "IfNonNull" -> <<105, 102, 110, 111, 110, 110, 117, 108, 108, 32, 32, 32, 32, 32>>
      [] name = "GoTo" -> <<103, 111, 116, 111, 32, 32, 32, 32, 32, 32, 32, 32, 32, 32>>

BranchNames == {a[2] : a \in I16Arms}

\* the arms of aconst_null and of the branch instructions
get_opcode_and_arguments_string(at, instruction) ==
    IF instruction.name = "AConstNull" THEN Ok(0, <<97, 99, 111, 110, 115, 116, 95, 110, 117, 108, 108>>)
    ELSE Then(add_offset(at, instruction.args[1]), LAMBDA target :
             Ok(0, branch_mnemonic(instruction.name)
                   \o to_string(target.val)))

RECURSIVE print_instructions(_, _, _)
\* for (position, instruction) in code.iter(): one line per instruction;
\* get_comment is None for aconst_null and for every branch
print_instructions(code, k, out) ==
    IF k > Len(code) THEN Ok(0, out)
    ELSE Then(get_opcode_and_arguments_string(code[k][1], code[k][2]),
              LAMBDA opcode_and_arguments :
                  print_instructions(code, k + 1,
                      Append(out, [at |-> code[k][1],
                                   text |-> opcode_and_arguments.val])))

\* code made of aconst_null and one branch with its 16-bit offset
BranchInputs ==
    {Repeat(1, k) \o <<a[1], hi, lo>> \o Repeat(1, n) :
        k \in 0..MaxBranchPrefix, a \in I16Arms, hi \in {0, 127, 128, 255},
        lo \in {0, 1, 2, 3, 253, 254, 255}, n \in 0..2}

InitBranch ==
    /\ buf \in BranchInputs
    /\ pos = 0
    /\ endian = "Big"
    /\ debug_assertions \in BOOLEAN
    /\ pc = "bc"
    /\ result = <<>>
    /\ last = NoLast
    /\ diag = NoDiag
    /\ ParkPool /\ ParkFlags /\ ParkFile

\* print_method_attributes, the loop over the instructions of a Code
PrintInstructions ==
    /\ pc = "bc_done"
    /\ pc' = IF print_instructions(result, 1, <<>>).res = "Ok"
             THEN "code_printed" ELSE "panicked"
    /\ last' = [op |-> "print_code",
                lines |-> print_instructions(result, 1, <<>>).val]
    /\ diag' = print_instructions(result, 1, <<>>).diag
    /\ UNCHANGED <<buf, pos, endian, debug_assertions, cp_count, i, entries,
                   ctx, flags, result, cf>>

NextBranch == DecodeInstruction \/ ReturnInstructions \/ PrintInstructions

SpecBranch == InitBranch /\ [][NextBranch]_vars

\* the signed 16-bit offset held after the opcode at offset p of buf
BranchOffset(p) ==
    IF buf[p + 2] >= 128 THEN (buf[p + 2] - 256) * 256 + buf[p + 3]
    ELSE buf[p + 2] * 256 + buf[p + 3]

\* C24: in code decoded and printed without failure, the target p + d of
\* every branch lies in [0, code_length) and is the operand printed.
C24_BranchTargetInCode ==
    pc = "code_printed" =>
        \A k \in 1..Len(result) :
            result[k][2].name \in BranchNames =>
                /\ result[k][1] + BranchOffset(result[k][1]) >= 0
                /\ AfterSpace(last.lines[k].text)
                      = Repeat(32, Len(AfterSpace(last.lines[k].text))
                          - Len(to_string(result[k][1]
                                  + BranchOffset(result[k][1]))))
                        \o to_string(result[k][1]
                                     + BranchOffset(result[k][1]))
                /\ result[k][1] + BranchOffset(result[k][1]) < Len(buf)

----------------------------------------------------------------------------
(* parse_stack_map_entry and parse_verification_type_info on one frame or  *)
(* one verification type, and javap's rendering of a verification type.    *)

get_verification_type_info_string(cp, vti) ==
    CASE vti.kind = "IntegerVariable" -> Ok(0, <<105, 110, 116>>)
      [] vti.kind = "FloatVariable" -> Ok(0, <<102, 108, 111, 97, 116>>)
      [] vti.kind = "LongVariable" -> Ok(0, <<108, 111, 110, 103>>)
      [] vti.kind = "DoubleVariable" -> Ok(0, <<100, 111, 117, 98, 108, 101>>)
      [] vti.kind = "NullVariable" -> Ok(0, <<110, 117, 108, 108>>)
      [] vti.kind = "ObjectVariable" ->
           Then(get_class_name(cp, vti.constant_pool_index), LAMBDA str :
               Ok(0, <<99, 108, 97, 115, 115, 32>> \o str.val))
      [] OTHER -> Panic(0, [kind |-> "NotYetImplemented"])

\* a verification type as it stands in the file
TypeBytes == { <<0>>, <<1>>, <<4>>, <<7, 0, 3>>, <<8, 0, 1>>, <<9>> }

\* payloads of a full frame: offset_delta, then locals and stack items
FullFramePayloads ==
    {<<0, 1, 0, Len(ls)>> \o Flatten(ls) \o <<0, Len(st)>> \o Flatten(st) :
        ls \in SeqsUpTo(TypeBytes, 2), st \in SeqsUpTo(TypeBytes, 1)}

\* payloads of an append frame
AppendPayloads ==
    {<<1, 0>> \o Flatten(ls) : ls \in SeqsUpTo({<<1>>, <<7, 0, 3>>}, 3)}

FramePayloads ==
    SeqsUpTo({0, 1, 7}, MaxFramePayload) \cup FullFramePayloads
    \cup AppendPayloads

InitStackMap ==
    /\ \/ /\ ctx = "frame"
          /\ \E ft \in 0..255, pl \in FramePayloads : buf = <<ft>> \o pl
       \/ /\ ctx = "type"
          /\ \E tag \in 0..255, pl \in SeqsUpTo({0, 1, 3}, 2) :
                buf = <<tag>> \o pl
    /\ entries = BasePool
    /\ pos = 0
    /\ endian = "Big"
    /\ debug_assertions \in BOOLEAN
    /\ pc = "stack_map"
    /\ result = <<>>
    /\ last = NoLast
    /\ diag = NoDiag
    /\ cp_count = 0 /\ i = 0 /\ flags = 0 /\ ParkFile

ParseStackMapEntry ==
    /\ pc = "stack_map" /\ ctx = "frame"
    /\ pc' = IF parse_stack_map_entry(buf, pos, endian).res = "Ok"
             THEN "frame_parsed" ELSE "panicked"
    /\ pos' = parse_stack_map_entry(buf, pos, endian).pos
    /\ result' = parse_stack_map_entry(buf, pos, endian).val
    /\ diag' = parse_stack_map_entry(buf, pos, endian).diag
    /\ UNCHANGED <<buf, endian, debug_assertions, last, cp_count, i,
                   entries, ctx, flags, cf>>

ParseVerificationTypeInfo ==
    /\ pc = "stack_map" /\ ctx = "type"
    /\ pc' = IF parse_verification_type_info(buf, pos, endian).res = "Ok"
             THEN "type_parsed" ELSE "panicked"
    /\ pos' = parse_verification_type_info(buf, pos, endian).pos
    /\ result' = parse_verification_type_info(buf, pos, endian).val
    /\ diag' = parse_verification_type_info(buf, pos, endian).diag
    /\ UNCHANGED <<buf, endian, debug_assertions, last, cp_count, i,
                   entries, ctx, flags, cf>>

GetVerificationTypeInfoString ==
    /\ pc = "type_parsed"
    /\ pc' = IF get_verification_type_info_string(entries, result).res = "Ok"
             THEN "type_printed" ELSE "panicked"
    /\ last' = [op |-> "vti_string", vti |-> result]
    /\ result' = get_verification_type_info_string(entries, result).val
    /\ diag' = get_verification_type_info_string(entries, result).diag
    /\ UNCHANGED <<buf, pos, endian, debug_assertions, cp_count, i,
                   entries, ctx, flags, cf>>

NextStackMap ==
    \/ ParseStackMapEntry \/ ParseVerificationTypeInfo
    \/ GetVerificationTypeInfoString

SpecStackMap == InitStackMap /\ [][NextStackMap]_vars

\* the unsigned 16-bit big-endian value at offset p of buf
U16At(p) == buf[p + 1] * 256 + buf[p + 2]

RECURSIVE TypesEnd(_, _)
\* the offset after n verification types that start at offset p of buf, or
\* -1 when a tag is above 8 or the bytes run out
TypesEnd(p, n) ==
    IF n = 0 THEN p
    ELSE IF p >= Len(buf) \/ buf[p + 1] > 8 THEN -1
    ELSE IF buf[p + 1] \in {7, 8}
    THEN IF p + 3 > Len(buf) THEN -1 ELSE TypesEnd(p + 3, n - 1)
    ELSE TypesEnd(p + 1, n - 1)

\* the offset after the frame that starts at offset 0 of buf by the table of
\* the JVM specification, or -1 when the table has no frame there
FrameEnd ==
    LET ft == buf[1]
    IN  IF ft <= 63 THEN 1
        ELSE IF ft <= 127 THEN TypesEnd(1, 1)
        ELSE IF ft <= 246 \/ Len(buf) < 3 THEN -1
        ELSE IF ft = 247 THEN TypesEnd(3, 1)
        ELSE IF ft <= 251 THEN 3
        ELSE IF ft <= 254 THEN TypesEnd(3, ft - 251)
        ELSE IF Len(buf) < 5 \/ TypesEnd(5, U16At(3)) = -1
                \/ TypesEnd(5, U16At(3)) + 2 > Len(buf) THEN -1
        ELSE TypesEnd(TypesEnd(5, U16At(3)) + 2,
                      U16At(TypesEnd(5, U16At(3))))

FrameKind(ft) ==
    IF ft <= 63 THEN "SameFrame"
    ELSE IF ft <= 127 THEN "SameLocals1StackItemFrame"
    ELSE IF ft = 247 THEN "SameLocals1StackItemFrameExtended"
    ELSE IF ft <= 250 THEN "ChopFrame"
    ELSE IF ft = 251 THEN "SameFrameExtended"
    ELSE IF ft <= 254 THEN "AppendFrame"
    ELSE "FullFrame"

\* C25: parse_stack_map_entry follows the table of frame types: it fails on
\* 128..=246 and on a payload that is cut short or holds a wrong tag, and
\* otherwise returns the frame of the range, with frame_type - 251 locals
\* for an Append and the counted locals and stack items for a FullFrame,
\* and stops right after the payload.
C25_StackMapFrameTable ==
    (ctx = "frame" /\ pc # "stack_map") =>
        /\ FrameEnd = -1 => pc = "panicked"
        /\ FrameEnd # -1 =>
              /\ pc = "frame_parsed"
              /\ pos = FrameEnd
              /\ result.kind = FrameKind(buf[1])
              /\ buf[1] >= 247 => result.offset_delta = U16At(1)
              /\ buf[1] \in 252..254 => Len(result.locals) = buf[1] - 251
              /\ buf[1] = 255 =>
                    /\ Len(result.locals) = U16At(3)
                    /\ Len(result.stack)
                          = U16At(TypesEnd(5, U16At(3)))

C25_Witness ==
    /\ ctx = "frame" /\ pc = "frame_parsed"
    /\ buf = <<255, 0, 1, 0, 2, 1, 7, 0, 3, 0, 1, 4>>
    /\ result = [kind |-> "FullFrame", offset_delta |-> 1,
                 locals |-> <<[kind |-> "IntegerVariable"],
                              [kind |-> "ObjectVariable",
                               constant_pool_index |-> 3]>>,
                 stack |-> <<[kind |-> "LongVariable"]>>]
    /\ pos = 12

TagKinds ==
    <<"TopVariable", "IntegerVariable", "FloatVariable", "DoubleVariable",
      "LongVariable", "NullVariable", "UninitializedThisVariable",
      "ObjectVariable", "UninitializedVariable">>

\* C26: tags 0..8 decode into top, int, float, double, long, null,
\* uninitializedThis, object with a u16 pool index, uninitialized with a u16
\* offset; a tag above 8 fails; the variant of tag 3 prints as double and
\* the variant of tag 4 as long.
C26_VerificationTypeTags ==
    /\ (ctx = "type" /\ pc = "type_parsed") =>
          /\ buf[1] <= 8
          /\ result.kind = TagKinds[buf[1] + 1]
          /\ buf[1] = 7 => result.constant_pool_index = U16At(1) /\ pos = 3
          /\ buf[1] = 8 => result.offset = U16At(1) /\ pos = 3
          /\ buf[1] < 7 => pos = 1
    /\ (ctx = "type" /\ pc = "panicked" /\ last.op # "vti_string") =>
          (buf[1] > 8 \/ (buf[1] \in {7, 8} /\ Len(buf) < 3))
    /\ (ctx = "type" /\ pc \in {"type_printed", "panicked"}
           /\ last.op = "vti_string") =>
          /\ buf[1] = 3 => pc = "type_printed" /\ result = <<100, 111, 117, 98, 108, 101>>
          /\ buf[1] = 4 => pc = "type_printed" /\ result = <<108, 111, 110, 103>>

C26_Witness ==
    /\ ctx = "type" /\ pc = "type_printed" /\ buf[1] = 3
    /\ last.vti = [kind |-> "DoubleVariable"]
    /\ result = <<100, 111, 117, 98, 108, 101>>

----------------------------------------------------------------------------
(* to_u16, java_repr_vec and modifier_repr_vec on the flags a parse       *)
(* function returned, as javap calls them for the flags: and declaration   *)
(* lines.                                                                  *)

\* u16 | u16, bit by bit
RECURSIVE BitOr(_, _, _)
BitOr(a, b, n) ==
    IF n = 0 THEN 0
    ELSE (IF a % 2 = 1 \/ b % 2 = 1 THEN 1 ELSE 0)
         + 2 * BitOr(a \div 2, b \div 2, n - 1)

Or16(a, b) == BitOr(a, b, 16)

as_u16(f) == f[2]

RECURSIVE fold_or(_, _)
fold_or(fs, acc) ==
    IF fs = <<>> THEN acc ELSE fold_or(Tail(fs), Or16(acc, as_u16(Head(fs))))

\* a fold that keeps the accumulator's bits only
to_u16_first(fs) == IF fs = <<>> THEN 0 ELSE as_u16(Head(fs))

to_u16(fs) == fold_or(fs, 0)

NotYetImplemented == Panic(0, [kind |-> "NotYetImplemented"])

\* AccessFlag::java_repr of the five flag enums; c is the enum
access_flag_java_repr(c, f) ==
    CASE c = "class" /\ f[1] = "Public" -> Ok(0, <<65, 67, 67, 95, 80, 85, 66, 76, 73, 67>>)
      [] c = "class" /\ f[1] = "Final" -> Ok(0, <<65, 67, 67, 95, 70, 73, 78, 65, 76>>)
      [] c = "class" /\ f[1] = "Super" -> Ok(0, <<65, 67, 67, 95, 83, 85, 80, 69, 82>>)
      [] c = "class" /\ f[1] = "Enum" -> Ok(0, <<65, 67, 67, 95, 69, 78, 85, 77>>)
      [] c = "field" /\ f[1] = "Public" -> Ok(0, <<65, 67, 67, 95, 80, 85, 66, 76, 73, 67>>)
      [] c = "field" /\ f[1] = "Private" -> Ok(0, <<65, 67, 67, 95, 80, 82, 73, 86, 65, 84, 69>>)
      [] c = "field" /\ f[1] = "Static" -> Ok(0, <<65, 67, 67, 95, 83, 84, 65, 84, 73, 67>>)
      [] c = "field" /\ f[1] = "Final" -> Ok(0, <<65, 67, 67, 95, 70, 73, 78, 65, 76>>)
      [] c = "field" /\ f[1] = "Synthetic" -> Ok(0, <<65, 67, 67, 95, 83, 89, 78, 84, 72, 69, 84, 73, 67>>)
      [] c = "field" /\ f[1] = "Enum" -> Ok(0, <<65, 67, 67, 95, 69, 78, 85, 77>>)
      [] c = "method" /\ f[1] = "Public" -> Ok(0, <<65, 67, 67, 95, 80, 85, 66, 76, 73, 67>>)
      [] c = "method" /\ f[1] = "Private" -> Ok(0, <<65, 67, 67, 95, 80, 82, 73, 86, 65, 84, 69>>)
      [] c = "method" /\ f[1] = "Static" -> Ok(0, <<65, 67, 67, 95, 83, 84, 65, 84, 73, 67>>)
      [] c = "method" /\ f[1] = "Final" -> Ok(0, <<65, 67, 67, 95, 70, 73, 78, 65, 76>>)
      [] c = "method" /\ f[1] = "Varargs" -> Ok(0, <<65, 67, 67, 95, 86, 65, 82, 65, 82, 71, 83>>)
      [] c = "method" /\ f[1] = "Synthetic" -> Ok(0, <<65, 67, 67, 95, 83, 89, 78, 84, 72, 69, 84, 73, 67>>)
      [] OTHER -> NotYetImplemented

\* AccessFlag::modifier_repr of the five flag enums
access_flag_modifier_repr(c, f) ==
    CASE c = "class" /\ f[1] = "Public" -> Ok(0, <<112, 117, 98, 108, 105, 99>>)
      [] c = "class" /\ f[1] = "Final" -> Ok(0, <<102, 105, 110, 97, 108>>)
      [] c = "class" /\ f[1] = "Super" -> Ok(0, <<99, 108, 97, 115, 115>>)
      [] c = "class" /\ f[1] = "Enum" -> Ok(0, <<>>)
      [] c = "inner_class" /\ f[1] = "Public" -> Ok(0, <<112, 117, 98, 108, 105, 99>>)
      [] c = "inner_class" /\ f[1] = "Private" -> Ok(0, <<112, 114, 105, 118, 97, 116, 101>>)
      [] c = "inner_class" /\ f[1] = "Static" -> Ok(0, <<115, 116, 97, 116, 105, 99>>)
      [] c = "inner_class" /\ f[1] = "Final" -> Ok(0, <<102, 105, 110, 97, 108>>)
      [] c = "inner_class" /\ f[1] = "Interface" -> Ok(0, <<105, 110, 116, 101, 114, 102, 97, 99, 101>>)
      [] c = "inner_class" /\ f[1] = "Abstract" -> Ok(0, <<97, 98, 115, 116, 114, 97, 99, 116>>)
      [] c = "inner_class" /\ f[1] = "Enum" -> Ok(0, <<>>)
      [] c = "field" /\ f[1] = "Public" -> Ok(0, <<112, 117, 98, 108, 105, 99>>)
      [] c = "field" /\ f[1] = "Private" -> Ok(0, <<112, 114, 105, 118, 97, 116, 101>>)
      [] c = "field" /\ f[1] = "Static" -> Ok(0, <<115, 116, 97, 116, 105, 99>>)
      [] c = "field" /\ f[1] = "Final" -> Ok(0, <<102, 105, 110, 97, 108>>)
      [] c = "field" /\ f[1] = "Synthetic" -> Ok(0, <<>>)
      [] c = "field" /\ f[1] = "Enum" -> Ok(0, <<>>)
      [] c = "method" /\ f[1] = "Public" -> Ok(0, <<112, 117, 98, 108, 105, 99>>)
      [] c = "method" /\ f[1] = "Private" -> Ok(0, <<112, 114, 105, 118, 97, 116, 101>>)
      [] c = "method" /\ f[1] = "Static" -> Ok(0, <<115, 116, 97, 116, 105, 99>>)
      [] c = "method" /\ f[1] = "Final" -> Ok(0, <<102, 105, 110, 97, 108>>)
      [] c = "method" /\ f[1] = "Varargs" -> Ok(0, <<118, 97, 114, 97, 114, 103, 115>>)
      [] c = "method" /\ f[1] = "Synthetic" -> Ok(0, <<>>)
      [] c = "method_parameter" /\ f[1] = "Final" -> Ok(0, <<102, 105, 110, 97, 108>>)
      [] c = "method_parameter" /\ f[1] = "Synthetic" -> Ok(0, <<115, 121, 110, 116, 104, 101, 116, 105, 99>>)
      [] c = "method_parameter" /\ f[1] = "Mandated" -> Ok(0, <<109, 97, 110, 100, 97, 116, 101, 100>>)
      [] OTHER -> NotYetImplemented

RECURSIVE java_repr_strs(_, _)
\* flags.iter().map(|f| f.java_repr()).collect()
java_repr_strs(c, fs) ==
    IF fs = <<>> THEN Ok(0, <<>>)
    ELSE Then(access_flag_java_repr(c, fs[1]), LAMBDA str :
         Then(java_repr_strs(c, Tail(fs)), LAMBDA rest :
              Ok(0, <<str.val>> \o rest.val)))

java_repr_vec(c, fs) ==
    Then(java_repr_strs(c, fs), LAMBDA strs : Ok(0, join(strs.val, <<44, 32>>)))

RECURSIVE modifier_repr_strs(_, _)
\* flags.iter().map(|f| f.modifier_repr()).filter(|s| !s.is_empty())
modifier_repr_strs(c, fs) ==
    IF fs = <<>> THEN Ok(0, <<>>)
    ELSE Then(access_flag_modifier_repr(c, fs[1]), LAMBDA str :
         Then(modifier_repr_strs(c, Tail(fs)), LAMBDA rest :
              Ok(0, (IF str.val = <<>> THEN <<>> ELSE <<str.val>>)
                    \o rest.val)))

modifier_repr_vec(c, fs) ==
    Then(modifier_repr_strs(c, fs), LAMBDA strs : Ok(0, join(strs.val, <<32>>)))

ToU16 ==
    /\ pc = "parsed"
    /\ pc' = "converted"
    /\ last' = [op |-> "to_u16", vec |-> result]
    /\ result' = to_u16(result)
    /\ UNCHANGED <<buf, pos, endian, debug_assertions, cp_count, i,
                   entries, diag, ctx, flags, cf>>

JavaReprVec ==
    /\ pc = "parsed"
    /\ pc' = IF java_repr_vec(ctx, result).res = "Ok"
             THEN "flags_printed" ELSE "panicked"
    /\ last' = [op |-> "java_repr_vec", vec |-> result]
    /\ result' = java_repr_vec(ctx, result).val
    /\ diag' = java_repr_vec(ctx, result).diag
    /\ UNCHANGED <<buf, pos, endian, debug_assertions, cp_count, i,
                   entries, ctx, flags, cf>>

ModifierReprVec ==
    /\ pc = "parsed"
    /\ pc' = IF modifier_repr_vec(ctx, result).res = "Ok"
             THEN "modifiers_printed" ELSE "panicked"
    /\ last' = [op |-> "modifier_repr_vec", vec |-> result]
    /\ result' = modifier_repr_vec(ctx, result).val
    /\ diag' = modifier_repr_vec(ctx, result).diag
    /\ UNCHANGED <<buf, pos, endian, debug_assertions, cp_count, i,
                   entries, ctx, flags, cf>>

NextFlagsRepr == NextFlags \/ ToU16 \/ JavaReprVec \/ ModifierReprVec

SpecFlagsRepr == InitFlags /\ [][NextFlagsRepr]_vars

\* C27: java_repr_vec and modifier_repr_vec never fail on the flags a
\* context's parse function returned.
C27_FlagsLineNeverFails ==
    last.op \in {"java_repr_vec", "modifier_repr_vec"} => pc # "panicked"

\* C30: to_u16 of the flags parsed from a word inside the context's mask is
\* that word, in each of the five contexts.
C30_FlagsRoundTrip ==
    last.op = "to_u16" => (pc = "converted" /\ result = flags)

C30_Witness ==
    /\ pc = "converted" /\ ctx = "method" /\ flags = 4105
    /\ last.vec = << <<"Public", 1>>, <<"Static", 8>>, <<"Synthetic", 4096>> >>
    /\ result = 4105

----------------------------------------------------------------------------
(* javap: print_fields on the fields of a class whose descriptors are      *)
(* descriptors of the grammar.                                             *)

\* the four lines of one field, or the panic of the first call that fails
print_field(cp, field) ==
    Then(get_utf8_content(cp, field.descriptor_index), LAMBDA descriptor :
    Then(modifier_repr_vec("field", field.access_flags), LAMBDA mods :
    Then(parse_field_descriptor(descriptor.val), LAMBDA fd :
    Then(get_utf8_content(cp, field.name_index), LAMBDA name :
    Then(java_repr_vec("field", field.access_flags), LAMBDA jr :
        Ok(0, << <<32, 32>> \o mods.val \o <<32>> \o fmt_type(fd.val.field_type)
                    \o <<32>> \o name.val \o <<59>>,
                 <<32, 32, 32, 32, 100, 101, 115, 99, 114, 105, 112, 116, 111, 114, 58, 32>> \o descriptor.val,
                 <<32, 32, 32, 32, 102, 108, 97, 103, 115, 58, 32, 40, 48, 120>> \o LowerHex4(to_u16(field.access_flags))
                    \o <<41, 32>> \o jr.val,
                 <<>> >>))))))

RECURSIVE print_fields(_, _)
\* for field in fields.iter()
print_fields(cp, fields) ==
    IF fields = <<>> THEN Ok(0, <<>>)
    ELSE Then(print_field(cp, fields[1]), LAMBDA lines :
         Then(print_fields(cp, Tail(fields)), LAMBDA rest :
              Ok(0, lines.val \o rest.val)))

\* flag words of a field whose variants all have a java_repr and a
\* modifier_repr: none, public, private static final
PrintableFieldFlags == {0, 1, 26}

\* Utf8 "f", the descriptor under test, Utf8 "I"
FieldPool(s) ==
    << [kind |-> "Utf8", bytes |-> <<102>>],
       [kind |-> "Utf8", bytes |-> s],
       [kind |-> "Utf8", bytes |-> <<73>>] >>

FieldInfo(w, descriptor_index) ==
    [access_flags |-> parse_field_access_flags(w).val, name_index |-> 1,
     descriptor_index |-> descriptor_index, attributes |-> <<>>]

InitFields ==
    /\ \E ty \in ValidTypes(MaxTypeDepth), w \in PrintableFieldFlags,
          n \in 1..(MaxMembers + 1) :
          /\ entries = FieldPool(ty.s)
          /\ cf = [CfEmpty EXCEPT
                     !.fields = IF n = 1 THEN <<FieldInfo(w, 2)>>
                                ELSE <<FieldInfo(1, 3)>>
                                     \o [k \in 1..(n - 1) |-> FieldInfo(w, 2)]]
          /\ last = [op |-> "fields", s |-> ty.s, java |-> ty.java]
    /\ pc = "fields"
    /\ result = <<>>
    /\ diag = NoDiag
    /\ buf = <<>> /\ pos = 0 /\ endian = "Big" /\ debug_assertions \in BOOLEAN
    /\ cp_count = 0 /\ i = 0 /\ ParkFlags

PrintFields ==
    /\ pc = "fields"
    /\ pc' = IF print_fields(entries, cf.fields).res = "Ok"
             THEN "fields_printed" ELSE "panicked"
    /\ result' = print_fields(entries, cf.fields).val
    /\ diag' = print_fields(entries, cf.fields).diag
    /\ UNCHANGED <<buf, pos, endian, debug_assertions, last, cp_count, i,
                   entries, ctx, flags, cf>>

NextFields == PrintFields

SpecFields == InitFields /\ [][NextFields]_vars

\* C28: print_fields succeeds on a field whose descriptor is a descriptor of
\* the grammar, arrays included; the declaration line of the last field ends
\* with the Java rendering of the descriptor, the field's name and ';', and
\* its descriptor: line holds the raw descriptor unmodified.
C28_FieldLinesPrinted ==
    (last.op = "fields" /\ pc # "fields") =>
        /\ pc = "fields_printed"
        /\ Len(result) = 4 * Len(cf.fields)
        /\ IsSuffix(<<32>> \o last.java \o <<32, 102, 59>>,
                    result[Len(result) - 3])
        /\ result[Len(result) - 2] = <<32, 32, 32, 32, 100, 101, 115, 99, 114, 105, 112, 116, 111, 114, 58, 32>> \o last.s

----------------------------------------------------------------------------
(* read_u16_vec with any count, the count 0 of an empty interfaces table   *)
(* or of a bootstrap method without arguments included.                    *)

\* C29: read_u16_vec called with count N while 2 * N bytes remain returns N
\* values and advances the cursor by 2 * N, for N = 0 as well.
C29_VectorReadSucceeds ==
    (last.op = "read_u16_vec" /\ last.pos0 + 2 * last.count <= Len(buf)) =>
        /\ last.res = "Ok"
        /\ Len(last.val) = last.count
        /\ pos = last.pos0 + 2 * last.count

====
